---- MODULE Spec2Model ----
(***************************************************************************)
(* Model of the budget manager in src/app.py: the two worksheets           *)
(* (Transactions, Budget) of the external spreadsheet, the sessions that   *)
(* read and write them through the Transaction History, Expense Input and  *)
(* Budget Settings pages, and the budget aggregation the Dashboard, the    *)
(* Budget Settings page, the Report page and the Excel report compute.     *)
(*                                                                         *)
(* A worksheet is the sequence of its data rows (the header row is row 1   *)
(* of the sheet, so data row i, counted from 0, is sheet row i + 2).       *)
(* Every call of the spreadsheet client (append_row, update, delete_rows,  *)
(* get_all_records) is one atomic step; the steps of different sessions    *)
(* interleave freely, as nothing in the program orders them.               *)
(***************************************************************************)
EXTENDS Integers, Sequences, FiniteSets, TLC

VARIABLES
    worksheet,   \* the worksheet whose sessions this behaviour explores
    txSheet,     \* data rows of worksheet "Transactions"
    budgetSheet, \* data rows of worksheet "Budget"
    clock,       \* datetime.now() at the last append: the Timestamp source
    nextRid,     \* history: identity given to the next budget row
    created,     \* history: Timestamp -> Amount the transaction was created with
    pc,          \* per session: where its script run or form stands
    selected_tx, \* per session: index chosen in the page's selectbox
    sel_row,     \* per session: Timestamp of the row shown for that index
    edit_form,   \* per session: the values of the submitted edit form
    edit_idx,    \* per session: index of the budget row chosen for editing
    sel,         \* per session: the budget row shown for the chosen option
    dirty,       \* history, per session: another session wrote since its read
    last,        \* history: the last write of a page (see NoLast)
    today,       \* datetime.datetime.now(): current_year, current_month
    figures,     \* the figures of the page rendered last
    response,    \* what the Vision client gives for the uploaded receipt
    ocr,         \* what the Expense Input page shows for the receipt
    month0_entries \* per session: indices the migration loop has yet to write

vars == <<worksheet, txSheet, budgetSheet, clock, nextRid, created, pc,
          selected_tx, sel_row, edit_form, edit_idx, sel, dirty, last, today, figures,
          response, ocr, month0_entries>>

storeVars == <<worksheet, txSheet, budgetSheet, clock, nextRid, created, pc,
               selected_tx, sel_row, edit_form, edit_idx, sel, dirty, last,
               month0_entries>>

sessionVars == <<pc, selected_tx, sel_row, edit_form, edit_idx, sel, dirty,
                 month0_entries>>

----------------------------------------------------------------------------
(* Bounds of the exploration *)

\* appends to the Transactions worksheet in one behaviour
MaxClock == 2
\* appends to the Budget worksheet in one behaviour
MaxBudgetAdds == 1
\* rows of a budget snapshot handed to the aggregation
MaxBudgetRows == 2
\* rows of a transaction snapshot handed to the aggregation
MaxTxRows == 2

\* The most lines a receipt text has.
MaxLines == 3

Sessions == {"s1", "s2"}

----------------------------------------------------------------------------
(* Rows *)

\* A date the store holds: year and month (the day plays no part in any
\* computation of the program). NaT is what pd.to_datetime(errors="coerce")
\* gives for a blank or unparsable Date cell.
NaT == [y |-> 0, m |-> 0]

\* A row of the sheet grid no cell of which was ever written. A blank Amount
\* cell loads as 0 (to_numeric, fillna(0)); a blank Timestamp is 0 here.
BlankTx ==
    [Date |-> NaT, Category |-> "", Description |-> "", Amount |-> 0,
     PaymentMethod |-> "", ReceiptURL |-> "", OCRAmount |-> "",
     SubmittedBy |-> "", Timestamp |-> 0]

BlankBudget ==
    [Category |-> "", MonthlyBudget |-> 0, Year |-> 0, Month |-> 0,
     Notes |-> "", rid |-> 0]

NoEdit ==
    [Category |-> "", Description |-> "", PaymentMethod |-> "", SubmittedBy |-> ""]

\* op: the operation; s: its session; hit: what the row it wrote or removed
\* held (the record the session had selected, another record, nothing);
\* clean: no other session wrote between the session's read and this write.
NoLast == [op |-> "none", s |-> "", hit |-> "selected", clean |-> TRUE]

\* No receipt was uploaded: uploaded_file is None.
NoResponse == [kind |-> "none", text |-> <<>>]

\* The page before any OCR run: ocr_amount = "", nothing shown.
NoOcr == [message |-> "none", detected |-> <<>>, expander |-> FALSE]

----------------------------------------------------------------------------
(* The spreadsheet client, by the contract the program relies on *)

RECURSIVE Blanks(_, _)
Blanks(n, blank) == IF n <= 0 THEN <<>> ELSE <<blank>> \o Blanks(n - 1, blank)

RECURSIVE TrimBlank(_, _)
\* get_all_records reads through the last row that holds a value.
TrimBlank(sheet, blank) ==
    IF sheet = <<>> THEN <<>>
    ELSE IF sheet[Len(sheet)] = blank
         THEN TrimBlank(SubSeq(sheet, 1, Len(sheet) - 1), blank)
         ELSE sheet

\* ws.get_all_records(): the data rows, in sheet order.
get_all_records(sheet) == sheet

\* ws.append_row(values): a new row after the last row that holds data.
append_row(sheet, values) == Append(sheet, values)

\* A delete that blanks the row where it stands instead of removing it.
delete_rows_soft(sheet, sheet_row, blank) ==
    LET i == sheet_row - 1 IN
    IF i >= 1 /\ i <= Len(sheet)
    THEN TrimBlank([sheet EXCEPT ![i] = blank], blank)
    ELSE sheet

\* ws.delete_rows(sheet_row): the row leaves the grid and the rows below it
\* move up by one; past the last data row it removes an empty grid row.
delete_rows(sheet, sheet_row, blank) ==
    LET i == sheet_row - 1 IN
    IF i >= 1 /\ i <= Len(sheet)
    THEN TrimBlank(SubSeq(sheet, 1, i - 1) \o SubSeq(sheet, i + 1, Len(sheet)), blank)
    ELSE sheet

\* ws.update("<col><sheet_row>", [[value]]): one cell of the grid; a row past
\* the last data row is an empty grid row and becomes a data row.
update(sheet, sheet_row, col, value, blank) ==
    LET i == sheet_row - 1
        padded == IF i <= Len(sheet) THEN sheet
                  ELSE sheet \o Blanks(i - Len(sheet), blank)
    IN  IF i >= 1 THEN [padded EXCEPT ![i] = [@ EXCEPT ![col] = value]]
        ELSE sheet

----------------------------------------------------------------------------
(* Inputs of the forms *)

\* Expense Input form: date, category, description, amount, payment method,
\* ocr_amount, submitted_by (the last two submissions fail the validation).
ExpenseInputs ==
    { [Date |-> [y |-> 2025, m |-> 1], Category |-> "A", Description |-> "keys",
       Amount |-> 12000, PaymentMethod |-> "card", ReceiptURL |-> "",
       OCRAmount |-> "12,000", SubmittedBy |-> "kim"],
      [Date |-> [y |-> 2025, m |-> 2], Category |-> "B", Description |-> "snack",
       Amount |-> 3000, PaymentMethod |-> "cash", ReceiptURL |-> "http://r",
       OCRAmount |-> "", SubmittedBy |-> "park"],
      [Date |-> [y |-> 2025, m |-> 2], Category |-> "B", Description |-> "free",
       Amount |-> 0, PaymentMethod |-> "cash", ReceiptURL |-> "",
       OCRAmount |-> "", SubmittedBy |-> "park"],
      [Date |-> [y |-> 2025, m |-> 2], Category |-> "B", Description |-> "",
       Amount |-> 3000, PaymentMethod |-> "cash", ReceiptURL |-> "",
       OCRAmount |-> "", SubmittedBy |-> "park"] }

\* edit_transaction_form: edit_category, edit_description, edit_payment,
\* edit_submitted_by.
EditInputs ==
    { [Category |-> "C", Description |-> "fixed", PaymentMethod |-> "transfer",
       SubmittedBy |-> "lee"] }

\* budget_form: new_cat, new_budget, new_year, new_month, notes (the second
\* submission fails the validation).
BudgetInputs ==
    { [Category |-> "B", MonthlyBudget |-> 10000, Year |-> 2025, Month |-> 2,
       Notes |-> ""],
      [Category |-> "B", MonthlyBudget |-> 0, Year |-> 2025, Month |-> 2,
       Notes |-> ""] }

\* What the Budget worksheet may hold when the sessions start: nothing,
\* rows of an earlier revision of the program, which wrote Month = 0 for a
\* budget of the whole year, or a budget of the current month.
InitialBudgets ==
    { <<>>,
      << [Category |-> "A", MonthlyBudget |-> 10000, Year |-> 2025, Month |-> 0,
          Notes |-> "", rid |-> 1] >>,
      << [Category |-> "B", MonthlyBudget |-> 10000, Year |-> 2025, Month |-> 2,
          Notes |-> "", rid |-> 1] >> }

----------------------------------------------------------------------------
(* History bookkeeping *)

\* What data row i (from 0) of the sheet holds: the record of that identity,
\* another record, or nothing (the row is past the last data row).
TxAt(sheet, i, ts) ==
    IF i + 1 > Len(sheet) THEN "nothing"
    ELSE IF sheet[i + 1].Timestamp = ts THEN "selected" ELSE "other"

BudgetAt(sheet, i, rid) ==
    IF i + 1 > Len(sheet) THEN "nothing"
    ELSE IF sheet[i + 1].rid = rid THEN "selected" ELSE "other"

\* A write by session s: every other session that holds a read is now stale.
Stale(s) == [o \in Sessions |-> IF o # s /\ pc[o] # "idle" THEN TRUE ELSE dirty[o]]

\* Session s is back at the start of a script run.
Reset(s) ==
    /\ pc' = [pc EXCEPT ![s] = "idle"]
    /\ selected_tx' = [selected_tx EXCEPT ![s] = 0]
    /\ sel_row' = [sel_row EXCEPT ![s] = 0]
    /\ edit_form' = [edit_form EXCEPT ![s] = NoEdit]
    /\ edit_idx' = [edit_idx EXCEPT ![s] = 0]
    /\ sel' = [sel EXCEPT ![s] = BlankBudget]

----------------------------------------------------------------------------
(* Page: Expense Input *)

\* The form's submit handler: validation, then ws.append_row([...]).
SubmitExpense(s, f) ==
    /\ worksheet = "Transactions"
    /\ pc[s] = "idle"
    /\ clock < MaxClock
    /\ IF f.Amount <= 0 \/ f.Description = ""
       THEN UNCHANGED storeVars
       ELSE /\ clock' = clock + 1
            /\ txSheet' = append_row(txSheet,
                   [Date |-> f.Date, Category |-> f.Category,
                    Description |-> f.Description, Amount |-> f.Amount,
                    PaymentMethod |-> f.PaymentMethod,
                    ReceiptURL |-> f.ReceiptURL, OCRAmount |-> f.OCRAmount,
                    SubmittedBy |-> f.SubmittedBy, Timestamp |-> clock + 1])
            /\ created' = [created EXCEPT ![clock + 1] = f.Amount]
            /\ dirty' = Stale(s)
            /\ last' = [op |-> "create", s |-> s, hit |-> "selected", clean |-> TRUE]
            /\ UNCHANGED <<month0_entries, worksheet, budgetSheet, nextRid, pc, selected_tx,
                           sel_row, edit_form, edit_idx, sel>>
    /\ UNCHANGED <<today, figures,
                   response, ocr>>

----------------------------------------------------------------------------
(* Page: Transaction History *)

\* load_transactions(): the rows of the sheet as the page's df. The cells
\* are kept here in the form the load gives them: Amount a number (blank or
\* non-numeric cells are 0 after to_numeric / fillna(0)), Date a year and
\* month or NaT (to_datetime with errors="coerce").
load_transactions(sheet) == get_all_records(sheet)

\* The row number with the header row forgotten.
tx_sheet_row_no_header(i) == i + 1

\* sheet_row = selected_tx + 2  (+1 for header, +1 for 0-index)
tx_sheet_row(i) == i + 2

\* A script run of the page up to the edit form: df = load_transactions(),
\* the user picks selected_tx among range(len(df)), sel_row = df.iloc[it].
\* The category, date and search filters narrow the table shown above the
\* form only: the selectbox lists every row of df.
ViewHistory(s, i) ==
    /\ worksheet = "Transactions"
    /\ pc[s] \in {"idle", "form"}
    /\ LET df == load_transactions(txSheet) IN
       /\ df # <<>>
       /\ i \in 0 .. Len(df) - 1
       /\ selected_tx' = [selected_tx EXCEPT ![s] = i]
       /\ sel_row' = [sel_row EXCEPT ![s] = df[i + 1].Timestamp]
    /\ pc' = [pc EXCEPT ![s] = "form"]
    /\ dirty' = [dirty EXCEPT ![s] = FALSE]
    /\ last' = [op |-> "view", s |-> s, hit |-> "selected", clean |-> TRUE]
    /\ UNCHANGED <<month0_entries, worksheet, txSheet, budgetSheet, clock, nextRid, created,
                   edit_form, edit_idx, sel, today, figures,
                   response, ocr>>

\* The user leaves the page without submitting.
LeaveHistory(s) ==
    /\ pc[s] = "form"
    /\ Reset(s)
    /\ dirty' = [dirty EXCEPT ![s] = FALSE]
    /\ last' = [op |-> "leave", s |-> s, hit |-> "selected", clean |-> TRUE]
    /\ UNCHANGED <<month0_entries, worksheet, txSheet, budgetSheet, clock, nextRid, created,
                   today, figures,
                   response, ocr>>

\* An edit that also writes column D.
edit_cells_with_amount(e) ==
    << <<"Category", e.Category>>, <<"Description", e.Description>>,
       <<"Amount", 0>>,
       <<"PaymentMethod", e.PaymentMethod>>, <<"SubmittedBy", e.SubmittedBy>> >>

\* The cells "save edit" writes, in the order of its four ws.update calls:
\* columns B, C, E, H of sheet_row.
edit_cells(e) ==
    << <<"Category", e.Category>>, <<"Description", e.Description>>,
       <<"PaymentMethod", e.PaymentMethod>>, <<"SubmittedBy", e.SubmittedBy>> >>

RECURSIVE update_cells(_, _, _, _)
update_cells(sheet, sheet_row, cells, blank) ==
    IF cells = <<>> THEN sheet
    ELSE update_cells(update(sheet, sheet_row, cells[1][1], cells[1][2], blank),
                      sheet_row, Tail(cells), blank)

\* The "save edit" button, as one step: the four ws.update calls, the cache
\* clear and st.rerun().
SaveEdit(s, e) ==
    /\ pc[s] = "form"
    /\ txSheet' = update_cells(txSheet, tx_sheet_row(selected_tx[s]),
                               edit_cells(e), BlankTx)
    /\ Reset(s)
    /\ dirty' = [Stale(s) EXCEPT ![s] = FALSE]
    /\ last' = [op |-> "edit", s |-> s,
                hit |-> TxAt(txSheet, selected_tx[s], sel_row[s]),
                clean |-> ~dirty[s]]
    /\ UNCHANGED <<month0_entries, worksheet, budgetSheet, clock, nextRid, created, today, figures,
                   response, ocr>>

\* The same button, one step per ws.update call.
EditCall(s, from, to, n) ==
    /\ pc[s] = from
    /\ txSheet' = update_cells(txSheet, tx_sheet_row(selected_tx[s]),
                               <<edit_cells(edit_form'[s])[n]>>, BlankTx)
    /\ pc' = [pc EXCEPT ![s] = to]
    /\ dirty' = Stale(s)
    /\ last' = [op |-> "edit_call", s |-> s,
                hit |-> TxAt(txSheet, selected_tx[s], sel_row[s]),
                clean |-> ~dirty[s]]
    /\ UNCHANGED <<month0_entries, worksheet, budgetSheet, clock, nextRid, created,
                   selected_tx, sel_row, edit_idx, sel, today, figures,
                   response, ocr>>

\* ws.update(f"B{sheet_row}", [[edit_category]])
SaveEditB(s, e) ==
    /\ edit_form' = [edit_form EXCEPT ![s] = e]
    /\ EditCall(s, "form", "updateC", 1)

\* ws.update(f"C{sheet_row}", [[edit_description]])
SaveEditC(s) ==
    /\ UNCHANGED edit_form
    /\ EditCall(s, "updateC", "updateE", 2)

\* ws.update(f"E{sheet_row}", [[edit_payment]])
SaveEditE(s) ==
    /\ UNCHANGED edit_form
    /\ EditCall(s, "updateE", "updateH", 3)

\* ws.update(f"H{sheet_row}", [[edit_submitted_by]]); cache clear; st.rerun()
SaveEditH(s) ==
    /\ pc[s] = "updateH"
    /\ txSheet' = update_cells(txSheet, tx_sheet_row(selected_tx[s]),
                               <<edit_cells(edit_form[s])[4]>>, BlankTx)
    /\ Reset(s)
    /\ dirty' = [Stale(s) EXCEPT ![s] = FALSE]
    /\ last' = [op |-> "edit_call", s |-> s,
                hit |-> TxAt(txSheet, selected_tx[s], sel_row[s]),
                clean |-> ~dirty[s]]
    /\ UNCHANGED <<month0_entries, worksheet, budgetSheet, clock, nextRid, created, today, figures,
                   response, ocr>>

\* The delete button: ws.delete_rows(selected_tx + 2); cache clear; st.rerun()
DeleteTx(s) ==
    /\ pc[s] = "form"
    /\ txSheet' = delete_rows(txSheet, tx_sheet_row(selected_tx[s]), BlankTx)
    /\ Reset(s)
    /\ dirty' = [Stale(s) EXCEPT ![s] = FALSE]
    /\ last' = [op |-> "delete", s |-> s,
                hit |-> TxAt(txSheet, selected_tx[s], sel_row[s]),
                clean |-> ~dirty[s]]
    /\ UNCHANGED <<month0_entries, worksheet, budgetSheet, clock, nextRid, created, today, figures,
                   response, ocr>>

----------------------------------------------------------------------------
(* Page: Budget Settings *)

\* load_budgets_fresh(): the rows of the Budget sheet, index reset to 0..n-1.
load_budgets_fresh(sheet) == get_all_records(sheet)

\* The row number with the header row forgotten.
budget_sheet_row_no_header(i) == i + 1

\* sheet_row = edit_idx + 2  (1 for header, 1 for 0-based index)
budget_sheet_row(i) == i + 2

\* The months the edit and add forms offer: month_names.keys().
month_options == 1 .. 12

\* default_month = current_month_val if current_month_val in month_options
\*                 else current_month
default_month(row) == IF row.Month \in month_options THEN row.Month ELSE today.month

\* The values of edit_budget_form at submission: the defaults shown for sel,
\* or what the user typed over them.
BudgetEditForms(row) ==
    { [Category |-> row.Category, MonthlyBudget |-> row.MonthlyBudget,
       Year |-> row.Year, Month |-> default_month(row), Notes |-> row.Notes],
      [Category |-> "C", MonthlyBudget |-> 7000, Year |-> 2025, Month |-> 3,
       Notes |-> "rev"] }

\* budget_form's submit: validation, then ws.append_row([...]).
AddBudget(s, b) ==
    /\ worksheet = "Budget"
    /\ pc[s] = "idle"
    /\ nextRid <= MaxBudgetAdds + 1
    /\ IF b.Category # "" /\ b.MonthlyBudget > 0
       THEN /\ budgetSheet' = append_row(budgetSheet,
                   [Category |-> b.Category, MonthlyBudget |-> b.MonthlyBudget,
                    Year |-> b.Year, Month |-> b.Month, Notes |-> b.Notes,
                    rid |-> nextRid])
            /\ nextRid' = nextRid + 1
            /\ dirty' = Stale(s)
            /\ last' = [op |-> "budget_add", s |-> s, hit |-> "selected", clean |-> TRUE]
            /\ UNCHANGED <<month0_entries, worksheet, txSheet, clock, created, pc, selected_tx,
                           sel_row, edit_form, edit_idx, sel>>
       ELSE UNCHANGED storeVars
    /\ UNCHANGED <<today, figures,
                   response, ocr>>

\* A script run of the page up to the edit form: budgets =
\* load_budgets_fresh(), the user picks selected_option, and
\* edit_idx, _, sel = budget_options[selected_option].
ViewBudget(s, i) ==
    /\ worksheet = "Budget"
    /\ pc[s] \in {"idle", "budget_form"}
    /\ LET budgets == load_budgets_fresh(budgetSheet) IN
       /\ budgets # <<>>
       /\ i \in 0 .. Len(budgets) - 1
       /\ edit_idx' = [edit_idx EXCEPT ![s] = i]
       /\ sel' = [sel EXCEPT ![s] = budgets[i + 1]]
    /\ pc' = [pc EXCEPT ![s] = "budget_form"]
    /\ dirty' = [dirty EXCEPT ![s] = FALSE]
    /\ last' = [op |-> "view", s |-> s, hit |-> "selected", clean |-> TRUE]
    /\ UNCHANGED <<month0_entries, worksheet, txSheet, budgetSheet, clock, nextRid, created,
                   selected_tx, sel_row, edit_form, today, figures,
                   response, ocr>>

LeaveBudget(s) ==
    /\ pc[s] = "budget_form"
    /\ Reset(s)
    /\ dirty' = [dirty EXCEPT ![s] = FALSE]
    /\ last' = [op |-> "leave", s |-> s, hit |-> "selected", clean |-> TRUE]
    /\ UNCHANGED <<month0_entries, worksheet, txSheet, budgetSheet, clock, nextRid, created,
                   today, figures,
                   response, ocr>>

\* ws.update(f"A{sheet_row}:E{sheet_row}", [[edit_cat, edit_budget, edit_year,
\* edit_month, edit_notes]]): the five cells of one grid row.
update_budget_row(sheet, sheet_row, e) ==
    update_cells(sheet, sheet_row,
        << <<"Category", e.Category>>, <<"MonthlyBudget", e.MonthlyBudget>>,
           <<"Year", e.Year>>, <<"Month", e.Month>>, <<"Notes", e.Notes>> >>,
        BlankBudget)

\* edit_budget_form's "save" button.
SaveBudgetEdit(s, e) ==
    /\ pc[s] = "budget_form"
    /\ budgetSheet' = update_budget_row(budgetSheet, budget_sheet_row(edit_idx[s]), e)
    /\ Reset(s)
    /\ dirty' = [Stale(s) EXCEPT ![s] = FALSE]
    /\ last' = [op |-> "budget_edit", s |-> s,
                hit |-> BudgetAt(budgetSheet, edit_idx[s], sel[s].rid),
                clean |-> ~dirty[s]]
    /\ UNCHANGED <<month0_entries, worksheet, txSheet, clock, nextRid, created, today, figures,
                   response, ocr>>

\* edit_budget_form's delete button.
DeleteBudget(s) ==
    /\ pc[s] = "budget_form"
    /\ budgetSheet' = delete_rows(budgetSheet, budget_sheet_row(edit_idx[s]),
                                  BlankBudget)
    /\ Reset(s)
    /\ dirty' = [Stale(s) EXCEPT ![s] = FALSE]
    /\ last' = [op |-> "budget_delete", s |-> s,
                hit |-> BudgetAt(budgetSheet, edit_idx[s], sel[s].rid),
                clean |-> ~dirty[s]]
    /\ UNCHANGED <<month0_entries, worksheet, txSheet, clock, nextRid, created, today, figures,
                   response, ocr>>

\* A selection that takes every row, whatever its month.
month0_of_any(budgets, i) ==
    [k \in 1 .. Len(budgets) |-> [idx |-> k - 1, row |-> budgets[k]]]

RECURSIVE month0_of(_, _)
\* month0_entries = budgets[budgets["Month"] == 0], as iterrows() gives it:
\* the pairs (idx, row) from index i on, in order.
month0_of(budgets, i) ==
    IF i >= Len(budgets) THEN <<>>
    ELSE (IF budgets[i + 1].Month = 0
          THEN <<[idx |-> i, row |-> budgets[i + 1]]>> ELSE <<>>)
         \o month0_of(budgets, i + 1)

\* The script run that follows a click on migrate_btn, up to the loop:
\* budgets = load_budgets_fresh(); month0_entries; the button is drawn, and
\* its branch taken, only if month0_entries is not empty.
MigrateRead(s) ==
    /\ worksheet = "Budget"
    /\ pc[s] = "idle"
    /\ LET budgets == load_budgets_fresh(budgetSheet) IN
       /\ month0_of(budgets, 0) # <<>>
       /\ month0_entries' = [month0_entries EXCEPT ![s] = month0_of(budgets, 0)]
    /\ pc' = [pc EXCEPT ![s] = "migrate"]
    /\ dirty' = [dirty EXCEPT ![s] = FALSE]
    /\ last' = [op |-> "view", s |-> s, hit |-> "selected", clean |-> TRUE]
    /\ UNCHANGED <<worksheet, txSheet, budgetSheet, clock, nextRid, created,
                   selected_tx, sel_row, edit_form, edit_idx, sel, today,
                   figures, response, ocr>>

\* The month the migration gives: ws.update(f"D{sheet_row}", [[1]]).
migrated_month == 1

\* One turn of the loop: sheet_row = idx + 2; ws.update(f"D{sheet_row}",
\* [[1]]). After the last turn: cache clear and st.rerun().
MigrateWrite(s) ==
    /\ pc[s] = "migrate"
    /\ month0_entries[s] # <<>>
    /\ LET idx == Head(month0_entries[s]).idx
           row == Head(month0_entries[s]).row
       IN  /\ budgetSheet' = update(budgetSheet, budget_sheet_row(idx), "Month",
                                    migrated_month, BlankBudget)
           /\ last' = [op |-> "migrate", s |-> s,
                       hit |-> BudgetAt(budgetSheet, idx, row.rid),
                       clean |-> ~dirty[s]]
    /\ month0_entries' = [month0_entries EXCEPT ![s] = Tail(@)]
    /\ pc' = [pc EXCEPT ![s] = IF Tail(month0_entries[s]) = <<>>
                               THEN "idle" ELSE "migrate"]
    /\ dirty' = [Stale(s) EXCEPT ![s] = IF Tail(month0_entries[s]) = <<>>
                                        THEN FALSE ELSE dirty[s]]
    /\ UNCHANGED <<worksheet, txSheet, clock, nextRid, created, selected_tx,
                   sel_row, edit_form, edit_idx, sel, today, figures, response,
                   ocr>>

----------------------------------------------------------------------------
(* The sessions on the store *)

\* The two worksheets share no cell and no operation writes both, so a
\* behaviour follows the sessions of one of them.
Init ==
    /\ worksheet \in {"Transactions", "Budget"}
    /\ txSheet = <<>>
    /\ budgetSheet \in IF worksheet = "Budget" THEN InitialBudgets ELSE {<<>>}
    /\ clock = 0
    /\ nextRid = 2
    /\ created = [t \in 1 .. MaxClock |-> 0]
    /\ pc = [s \in Sessions |-> "idle"]
    /\ selected_tx = [s \in Sessions |-> 0]
    /\ sel_row = [s \in Sessions |-> 0]
    /\ edit_form = [s \in Sessions |-> NoEdit]
    /\ edit_idx = [s \in Sessions |-> 0]
    /\ sel = [s \in Sessions |-> BlankBudget]
    /\ dirty = [s \in Sessions |-> FALSE]
    /\ last = NoLast
    /\ today = [year |-> 2025, month |-> 2]
    /\ figures = [page |-> "none"]
    /\ response = NoResponse
    /\ ocr = NoOcr
    /\ month0_entries = [s \in Sessions |-> <<>>]

Next ==
    \/ \E s \in Sessions, f \in ExpenseInputs : SubmitExpense(s, f)
    \/ \E s \in Sessions, i \in 0 .. MaxClock - 1 : ViewHistory(s, i)
    \/ \E s \in Sessions : LeaveHistory(s)
    \/ \E s \in Sessions, e \in EditInputs : SaveEdit(s, e)
    \/ \E s \in Sessions : DeleteTx(s)
    \/ \E s \in Sessions, b \in BudgetInputs : AddBudget(s, b)
    \/ \E s \in Sessions, i \in 0 .. MaxBudgetAdds : ViewBudget(s, i)
    \/ \E s \in Sessions : LeaveBudget(s)
    \/ \E s \in Sessions : \E e \in BudgetEditForms(sel[s]) : SaveBudgetEdit(s, e)
    \/ \E s \in Sessions : DeleteBudget(s)

Spec == Init /\ [][Next]_vars

\* The same sessions with "save edit" taken one ws.update call at a time.
NextCalls ==
    \/ \E s \in Sessions, f \in ExpenseInputs : SubmitExpense(s, f)
    \/ \E s \in Sessions, i \in 0 .. MaxClock - 1 : ViewHistory(s, i)
    \/ \E s \in Sessions : LeaveHistory(s)
    \/ \E s \in Sessions, e \in EditInputs : SaveEditB(s, e)
    \/ \E s \in Sessions : SaveEditC(s)
    \/ \E s \in Sessions : SaveEditE(s)
    \/ \E s \in Sessions : SaveEditH(s)
    \/ \E s \in Sessions : DeleteTx(s)

InitCalls == Init /\ worksheet = "Transactions"

SpecCalls == InitCalls /\ [][NextCalls]_vars

\* What the Budget worksheet may hold when a migration is at hand: a row of
\* the earlier revision alone, after a row of the current one, or two of
\* them.
MigrationBudgets ==
    { << [Category |-> "A", MonthlyBudget |-> 10000, Year |-> 2025, Month |-> 0,
          Notes |-> "", rid |-> 11] >>,
      << [Category |-> "B", MonthlyBudget |-> 10000, Year |-> 2025, Month |-> 2,
          Notes |-> "", rid |-> 11],
         [Category |-> "A", MonthlyBudget |-> 10000, Year |-> 2025, Month |-> 0,
          Notes |-> "", rid |-> 12] >>,
      << [Category |-> "A", MonthlyBudget |-> 10000, Year |-> 2025, Month |-> 0,
          Notes |-> "", rid |-> 11],
         [Category |-> "C", MonthlyBudget |-> 5000, Year |-> 2025, Month |-> 0,
          Notes |-> "", rid |-> 12] >> }

InitMigrate ==
    /\ worksheet = "Budget"
    /\ txSheet = <<>>
    /\ budgetSheet \in MigrationBudgets
    /\ clock = 0
    /\ nextRid = 2
    /\ created = [t \in 1 .. MaxClock |-> 0]
    /\ pc = [s \in Sessions |-> "idle"]
    /\ selected_tx = [s \in Sessions |-> 0]
    /\ sel_row = [s \in Sessions |-> 0]
    /\ edit_form = [s \in Sessions |-> NoEdit]
    /\ edit_idx = [s \in Sessions |-> 0]
    /\ sel = [s \in Sessions |-> BlankBudget]
    /\ dirty = [s \in Sessions |-> FALSE]
    /\ last = NoLast
    /\ today = [year |-> 2025, month |-> 2]
    /\ figures = [page |-> "none"]
    /\ response = NoResponse
    /\ ocr = NoOcr
    /\ month0_entries = [s \in Sessions |-> <<>>]

\* The session that runs the migration, and the session that adds, edits
\* and deletes budgets meanwhile.
Migrator == "s1"
Editor == "s2"

\* The sessions of the Budget Settings page, the migration included, one
\* step per call of the spreadsheet client.
NextMigrate ==
    \/ \E b \in BudgetInputs : AddBudget(Editor, b)
    \/ \E i \in 0 .. MaxBudgetAdds + 1 : ViewBudget(Editor, i)
    \/ LeaveBudget(Editor)
    \/ \E e \in BudgetEditForms(sel[Editor]) : SaveBudgetEdit(Editor, e)
    \/ DeleteBudget(Editor)
    \/ MigrateRead(Migrator)
    \/ MigrateWrite(Migrator)

SpecMigrate == InitMigrate /\ [][NextMigrate]_vars

----------------------------------------------------------------------------
(* Budget resolution and aggregation *)

RECURSIVE SumBudget(_)
\* rows["Monthly Budget"].sum()
SumBudget(rows) ==
    IF rows = <<>> THEN 0 ELSE rows[1].MonthlyBudget + SumBudget(Tail(rows))

RECURSIVE SumAmount(_)
\* rows["Amount"].sum()
SumAmount(rows) ==
    IF rows = <<>> THEN 0 ELSE rows[1].Amount + SumAmount(Tail(rows))

\* The resolution of an earlier revision: the Month = 0 rows of the year stand
\* in for a month that has no row of its own.
get_budget_for_month_fallback(budgets, year, month) ==
    LET monthly == SelectSeq(budgets, LAMBDA b : b.Year = year /\ b.Month = month)
    IN  IF monthly # <<>> THEN monthly
        ELSE SelectSeq(budgets, LAMBDA b : b.Year = year /\ b.Month = 0)

\* get_budget_for_month(budgets, year, month)
get_budget_for_month(budgets, year, month) ==
    IF budgets = <<>> THEN budgets
    ELSE SelectSeq(budgets, LAMBDA b : b.Year = year /\ b.Month = month)

\* month_budget["Monthly Budget"].sum() if not month_budget.empty else 0
month_budget_total(budgets, year, m) ==
    LET month_budget == get_budget_for_month(budgets, year, m)
    IN  IF month_budget # <<>> THEN SumBudget(month_budget) ELSE 0

RECURSIVE budget_of_months(_, _, _, _)
\* for m in range(from, to + 1): total += month_budget_total
budget_of_months(budgets, year, from, to) ==
    IF from > to THEN 0
    ELSE month_budget_total(budgets, year, from)
         + budget_of_months(budgets, year, from + 1, to)

\* A mask that lets the current month into the previous months.
prev_months_mask_inclusive(d, now) == d.m <= now.month /\ d.y = now.year

\* (df["Date"].dt.month == current_month) & (df["Date"].dt.year == current_year)
this_month_mask(d, now) == d.m = now.month /\ d.y = now.year

\* (df["Date"].dt.month < current_month) & (df["Date"].dt.year == current_year)
prev_months_mask(d, now) == d.m < now.month /\ d.y = now.year

\* df["Date"].dt.year == current_year
this_year_mask(d, now) == d.y = now.year

\* Available budget with the carryover left out.
available_budget_no_carryover(monthly_budget, carryover) == monthly_budget

\* available_budget = monthly_budget + carryover
available_budget_of(monthly_budget, carryover) == monthly_budget + carryover

\* n / d rounded to the nearest integer, ties to even: what round(1) and
\* the "{:.1f}" format do to the percentage, counted in tenths of a percent.
RoundDiv(n, d) ==
    LET q == n \div d
        r == n % d
    IN  IF 2 * r < d THEN q
        ELSE IF 2 * r > d THEN q + 1
        ELSE IF q % 2 = 0 THEN q ELSE q + 1

\* spent / budget * 100, in tenths of a percent.
percent_tenths(spent, budget) == RoundDiv(spent * 1000, budget)

RECURSIVE ytd(_, _, _, _)
\* The dashboard's year-to-date loop: a month counts, budget and spend, only
\* if its budget total is positive.
ytd(df, budgets, now, m) ==
    IF m > now.month THEN [budget |-> 0, spent |-> 0]
    ELSE LET m_budget_total == month_budget_total(budgets, now.year, m)
             m_spent == SumAmount(SelectSeq(df,
                            LAMBDA r : r.Date.m = m /\ r.Date.y = now.year))
             rest == ytd(df, budgets, now, m + 1)
         IN  IF m_budget_total > 0
             THEN [budget |-> m_budget_total + rest.budget,
                   spent |-> m_spent + rest.spent]
             ELSE rest

\* The dashboard page, from load_transactions() and load_budgets().
Dashboard(df, budgets, now) ==
    LET monthly_budget == month_budget_total(budgets, now.year, now.month)
        prev_months_budget == budget_of_months(budgets, now.year, 1, now.month - 1)
        this_month_spent ==
            SumAmount(SelectSeq(df, LAMBDA r : this_month_mask(r.Date, now)))
        prev_months_spent ==
            SumAmount(SelectSeq(df, LAMBDA r : prev_months_mask(r.Date, now)))
        total_spent_this_year ==
            SumAmount(SelectSeq(df, LAMBDA r : this_year_mask(r.Date, now)))
        carryover == prev_months_budget - prev_months_spent
        available_budget == available_budget_of(monthly_budget, carryover)
        remaining == available_budget - this_month_spent
        y == ytd(df, budgets, now, 1)
    IN  [page |-> "dashboard",
         monthly_budget |-> monthly_budget,
         prev_months_budget |-> prev_months_budget,
         this_month_spent |-> this_month_spent,
         prev_months_spent |-> prev_months_spent,
         total_spent_this_year |-> total_spent_this_year,
         tx_count |-> Len(df),
         carryover |-> carryover,
         available_budget |-> available_budget,
         remaining |-> remaining,
         ytd_budget |-> y.budget,
         ytd_spent |-> y.spent,
         \* the usage line is drawn only under "if ytd_budget > 0"; otherwise
         \* the page says that no budget is set
         usage_pct |-> IF y.budget > 0
                       THEN [kind |-> "pct",
                             tenths |-> percent_tenths(y.spent, y.budget)]
                       ELSE [kind |-> "none", tenths |-> 0]]

\* A yearly total that takes every row of the year, Month = 0 included.
yearly_budgets_mask_whole_year(b, now) == b.Year = now.year

\* (budgets["Year"] == current_year) & (budgets["Month"] >= 1)
\*                                    & (budgets["Month"] <= 12)
yearly_budgets_mask(b, now) == b.Year = now.year /\ b.Month >= 1 /\ b.Month <= 12

\* The summary of the Budget Settings page, from load_budgets_fresh().
BudgetSettings(budgets, now) ==
    LET this_month_budgets ==
            SelectSeq(budgets, LAMBDA b : b.Year = now.year /\ b.Month = now.month)
        yearly_budgets ==
            SelectSeq(budgets, LAMBDA b : yearly_budgets_mask(b, now))
    IN  [page |-> "settings",
         this_month_total |-> SumBudget(this_month_budgets),
         yearly_total |-> SumBudget(yearly_budgets),
         cat_count |-> Cardinality({this_month_budgets[i].Category :
                                       i \in 1 .. Len(this_month_budgets)}),
         month0_entries |-> Len(SelectSeq(budgets, LAMBDA b : b.Month = 0))]

RECURSIVE rows_of_months(_, _, _, _)
\* The rows "for m in range(1, current_month + 1): for _, row in
\* get_budget_for_month(...).iterrows()" visits, in that order.
rows_of_months(budgets, year, from, to) ==
    IF from > to THEN <<>>
    ELSE get_budget_for_month(budgets, year, from)
         \o rows_of_months(budgets, year, from + 1, to)

RECURSIVE accumulate_overwrite(_, _)
\* The dict filled with "budget_by_cat[cat] = row[...]": a later row of a
\* category replaces the earlier one.
accumulate_overwrite(rows, by_cat) ==
    IF rows = <<>> THEN by_cat
    ELSE LET cat == rows[1].Category
             known == \E i \in 1 .. Len(by_cat) : by_cat[i].cat = cat
         IN  accumulate_overwrite(Tail(rows),
                 IF known
                 THEN [i \in 1 .. Len(by_cat) |->
                          IF by_cat[i].cat = cat
                          THEN [cat |-> cat, budget |-> rows[1].MonthlyBudget]
                          ELSE by_cat[i]]
                 ELSE Append(by_cat, [cat |-> cat, budget |-> rows[1].MonthlyBudget]))

RECURSIVE accumulate(_, _)
\* budget_by_cat[cat] = budget_by_cat.get(cat, 0) + row["Monthly Budget"]:
\* the dict as the sequence of its items, in insertion order.
accumulate(rows, by_cat) ==
    IF rows = <<>> THEN by_cat
    ELSE LET cat == rows[1].Category
             known == \E i \in 1 .. Len(by_cat) : by_cat[i].cat = cat
         IN  accumulate(Tail(rows),
                 IF known
                 THEN [i \in 1 .. Len(by_cat) |->
                          IF by_cat[i].cat = cat
                          THEN [cat |-> cat,
                                budget |-> by_cat[i].budget + rows[1].MonthlyBudget]
                          ELSE by_cat[i]]
                 ELSE Append(by_cat, [cat |-> cat, budget |-> rows[1].MonthlyBudget]))

budget_by_cat(budgets, now) ==
    IF budgets = <<>> THEN <<>>
    ELSE accumulate(rows_of_months(budgets, now.year, 1, now.month), <<>>)

\* cat_spent after the left merge and fillna(0): the spend of the category
\* in df, 0 when df has no row of it.
cat_spent(df, cat) == SumAmount(SelectSeq(df, LAMBDA r : r.Category = cat))

\* The ratio column after round(1), replace(inf, 0) and fillna(0).
comparison_pct(spent, budget) ==
    IF budget = 0 THEN 0 ELSE percent_tenths(spent, budget)

\* comparison: one row per item of budget_by_cat, left-merged with cat_spent.
comparison(by_cat, df) ==
    [i \in 1 .. Len(by_cat) |->
        LET spent == cat_spent(df, by_cat[i].cat) IN
        [cat |-> by_cat[i].cat,
         budget |-> by_cat[i].budget,
         spent |-> spent,
         remaining |-> by_cat[i].budget - spent,
         pct |-> comparison_pct(spent, by_cat[i].budget)]]

\* The Report Download page: the three cards and the comparison preview.
ReportPage(df, budgets, now) ==
    LET total_spent == SumAmount(df)
        cumulative_budget == budget_of_months(budgets, now.year, 1, now.month)
    IN  [page |-> "report",
         total_tx |-> Len(df),
         total_spent |-> total_spent,
         cumulative_budget |-> cumulative_budget,
         remaining |-> cumulative_budget - total_spent,
         \* shown under "if not budgets.empty: ... if not df.empty:"
         comparison |-> IF budgets # <<>> /\ df # <<>>
                        THEN comparison(budget_by_cat(budgets, now), df)
                        ELSE <<>>]

\* generate_excel_report(df, budgets): sheet 4 and sheet 7.
ExcelReport(df, budgets, now) ==
    LET by_cat == budget_by_cat(budgets, now)
        this_year_df == SelectSeq(df, LAMBDA r : r.Date.y = now.year)
        total_spent == SumAmount(df)
        total_budget == SumBudget([i \in 1 .. Len(by_cat) |->
                                      [MonthlyBudget |-> by_cat[i].budget]])
    IN  [page |-> "excel",
         \* sheet 4 is written under "if budget_by_cat and not df.empty"
         comparison |-> IF by_cat # <<>> /\ df # <<>>
                        THEN comparison(by_cat, this_year_df)
                        ELSE <<>>,
         total_spent |-> total_spent,
         total_budget |-> total_budget,
         remaining |-> total_budget - total_spent,
         utilization |-> IF total_budget > 0
                         THEN [kind |-> "pct",
                               tenths |-> percent_tenths(total_spent, total_budget)]
                         ELSE [kind |-> "N/A", tenths |-> 0]]

----------------------------------------------------------------------------
(* The pages over a snapshot of the store *)

\* Rows the Budget worksheet may hold: two months of one category, a row of
\* an earlier revision (Month = 0), a budget of 0, a row of another year.
BudgetEntries ==
    { [Category |-> "A", MonthlyBudget |-> 10000, Year |-> 2025, Month |-> 1,
       Notes |-> "", rid |-> 0],
      [Category |-> "A", MonthlyBudget |-> 10000, Year |-> 2025, Month |-> 2,
       Notes |-> "", rid |-> 0],
      [Category |-> "A", MonthlyBudget |-> 10000, Year |-> 2025, Month |-> 0,
       Notes |-> "", rid |-> 0],
      [Category |-> "B", MonthlyBudget |-> 0, Year |-> 2025, Month |-> 2,
       Notes |-> "", rid |-> 0],
      [Category |-> "A", MonthlyBudget |-> 10000, Year |-> 2024, Month |-> 1,
       Notes |-> "", rid |-> 0] }

\* Rows the Transactions worksheet may hold: a spend of an earlier month, of
\* the category budgeted 0, of a category with no budget, of another year.
TxEntries ==
    { [Date |-> [y |-> 2025, m |-> 1], Category |-> "A", Description |-> "keys",
       Amount |-> 12000, PaymentMethod |-> "card", ReceiptURL |-> "",
       OCRAmount |-> "", SubmittedBy |-> "kim", Timestamp |-> 0],
      [Date |-> [y |-> 2025, m |-> 2], Category |-> "B", Description |-> "snack",
       Amount |-> 3000, PaymentMethod |-> "cash", ReceiptURL |-> "",
       OCRAmount |-> "", SubmittedBy |-> "kim", Timestamp |-> 0],
      [Date |-> [y |-> 2025, m |-> 3], Category |-> "C", Description |-> "taxi",
       Amount |-> 3000, PaymentMethod |-> "cash", ReceiptURL |-> "",
       OCRAmount |-> "", SubmittedBy |-> "kim", Timestamp |-> 0],
      [Date |-> [y |-> 2024, m |-> 1], Category |-> "A", Description |-> "old",
       Amount |-> 3000, PaymentMethod |-> "card", ReceiptURL |-> "",
       OCRAmount |-> "", SubmittedBy |-> "kim", Timestamp |-> 0] }

\* The dates the pages are opened at.
Todays == { [year |-> 2025, month |-> 2], [year |-> 2025, month |-> 3] }

SeqsUpTo(S, n) == UNION { [1 .. k -> S] : k \in 0 .. n }

InitAgg ==
    /\ worksheet = "none"
    /\ \E q \in SeqsUpTo(TxEntries, MaxTxRows) :
          txSheet = [i \in 1 .. Len(q) |-> [q[i] EXCEPT !.Timestamp = i]]
    /\ \E q \in SeqsUpTo(BudgetEntries, MaxBudgetRows) :
          budgetSheet = [i \in 1 .. Len(q) |-> [q[i] EXCEPT !.rid = i]]
    /\ clock = 0
    /\ nextRid = 0
    /\ created = [t \in 1 .. MaxClock |-> 0]
    /\ pc = [s \in Sessions |-> "idle"]
    /\ selected_tx = [s \in Sessions |-> 0]
    /\ sel_row = [s \in Sessions |-> 0]
    /\ edit_form = [s \in Sessions |-> NoEdit]
    /\ edit_idx = [s \in Sessions |-> 0]
    /\ sel = [s \in Sessions |-> BlankBudget]
    /\ dirty = [s \in Sessions |-> FALSE]
    /\ last = NoLast
    /\ today \in Todays
    /\ figures = [page |-> "none"]
    /\ response = NoResponse
    /\ ocr = NoOcr
    /\ month0_entries = [s \in Sessions |-> <<>>]

RenderDashboard ==
    /\ figures' = Dashboard(load_transactions(txSheet),
                            load_budgets_fresh(budgetSheet), today)
    /\ UNCHANGED <<storeVars, today, response, ocr>>

RenderBudgetSettings ==
    /\ figures' = BudgetSettings(load_budgets_fresh(budgetSheet), today)
    /\ UNCHANGED <<storeVars, today, response, ocr>>

RenderReportPage ==
    /\ figures' = ReportPage(load_transactions(txSheet),
                             load_budgets_fresh(budgetSheet), today)
    /\ UNCHANGED <<storeVars, today, response, ocr>>

\* The download button of the Report page, offered unless both are empty.
GenerateExcelReport ==
    /\ ~(txSheet = <<>> /\ budgetSheet = <<>>)
    /\ figures' = ExcelReport(load_transactions(txSheet),
                              load_budgets_fresh(budgetSheet), today)
    /\ UNCHANGED <<storeVars, today, response, ocr>>

NextAgg ==
    \/ RenderDashboard
    \/ RenderBudgetSettings
    \/ RenderReportPage
    \/ GenerateExcelReport

SpecAgg == InitAgg /\ [][NextAgg]_vars

----------------------------------------------------------------------------
(* Loading: the cells as the sheet holds them *)

\* A cell of a numeric column as get_all_records gives it: a number, a text
\* that is no number, an empty cell, or a text that reads as an infinite
\* float ("inf", "Infinity").
Num(n) == [k |-> "num", v |-> n]
Text == [k |-> "text", v |-> 0]
Blank == [k |-> "blank", v |-> 0]
Inf == [k |-> "inf", v |-> 0]
NaN == [k |-> "nan", v |-> 0]

\* pd.to_numeric(column, errors="coerce"), cell by cell: what is no number
\* becomes NaN.
to_numeric(cell) == IF cell.k \in {"num", "inf"} THEN cell ELSE NaN

\* .fillna(0)
fillna(cell) == IF cell.k = "nan" THEN Num(0) ELSE cell

\* pd.to_numeric(column, errors="coerce").fillna(0)
numeric(cell) == fillna(to_numeric(cell))

\* The outcome of a load: the frame; an exception (.astype(int) of a column
\* that holds an infinite value); or a frame with an infinite value in a
\* float column, which every sum over the column takes.
loaded(cells, ints, rows) ==
    IF \E c \in ints : numeric(c).k = "inf" THEN [kind |-> "raise", rows |-> <<>>]
    ELSE IF \E c \in cells : numeric(c).k = "inf"
    THEN [kind |-> "infinite", rows |-> <<>>]
    ELSE [kind |-> "ok", rows |-> rows]

\* load_transactions() on the records data.
load_transactions_records(data) ==
    loaded({ data[i].Amount : i \in 1 .. Len(data) }, {},
           [i \in 1 .. Len(data) |->
               [Date |-> data[i].Date, Category |-> data[i].Category,
                Amount |-> numeric(data[i].Amount).v]])

\* load_budgets() on the records data.
load_budgets(data) ==
    loaded({ data[i].MonthlyBudget : i \in 1 .. Len(data) },
           { data[i].Year : i \in 1 .. Len(data) }
               \cup { data[i].Month : i \in 1 .. Len(data) },
           [i \in 1 .. Len(data) |->
               [Category |-> data[i].Category,
                MonthlyBudget |-> numeric(data[i].MonthlyBudget).v,
                Year |-> numeric(data[i].Year).v,
                Month |-> numeric(data[i].Month).v,
                Notes |-> "", rid |-> i]])

\* Rows of the Budget worksheet, clean and dirty.
RawBudgetEntries ==
    { [Category |-> "A", MonthlyBudget |-> b, Year |-> ym[1], Month |-> ym[2]] :
        b \in {Num(10000), Text},
        ym \in { <<Num(2025), Num(2)>>, <<Text, Num(2)>>,
                 <<Num(2025), Blank>>, <<Inf, Num(2)>> } }

\* Rows of the Transactions worksheet, clean and dirty.
RawTxEntries ==
    { [Date |-> [y |-> 2025, m |-> 2], Category |-> "A", Amount |-> a] :
        a \in {Num(3000), Text, Inf} }

InitLoad ==
    /\ worksheet = "none"
    /\ txSheet \in SeqsUpTo(RawTxEntries, MaxTxRows)
    /\ budgetSheet \in SeqsUpTo(RawBudgetEntries, MaxBudgetRows)
    /\ clock = 0
    /\ nextRid = 0
    /\ created = [t \in 1 .. MaxClock |-> 0]
    /\ pc = [s \in Sessions |-> "idle"]
    /\ selected_tx = [s \in Sessions |-> 0]
    /\ sel_row = [s \in Sessions |-> 0]
    /\ edit_form = [s \in Sessions |-> NoEdit]
    /\ edit_idx = [s \in Sessions |-> 0]
    /\ sel = [s \in Sessions |-> BlankBudget]
    /\ dirty = [s \in Sessions |-> FALSE]
    /\ last = NoLast
    /\ today = [year |-> 2025, month |-> 2]
    /\ figures = [page |-> "none"]
    /\ response = NoResponse
    /\ ocr = NoOcr
    /\ month0_entries = [s \in Sessions |-> <<>>]

LoadTransactions ==
    /\ figures' = [page |-> "load_transactions",
                   result |-> load_transactions_records(get_all_records(txSheet))]
    /\ UNCHANGED <<storeVars, today, response, ocr>>

LoadBudgets ==
    /\ figures' = [page |-> "load_budgets",
                   result |-> load_budgets(get_all_records(budgetSheet))]
    /\ UNCHANGED <<storeVars, today, response, ocr>>

\* The figures of the dashboard and of the Report page over the two loads,
\* when both give a frame of finite values.
pages_over(df, budgets, now) ==
    IF df.kind = "ok" /\ budgets.kind = "ok"
    THEN [page |-> "sums", kind |-> "ok",
          dashboard |-> Dashboard(df.rows, budgets.rows, now),
          report |-> ReportPage(df.rows, budgets.rows, now)]
    ELSE [page |-> "sums",
          kind |-> IF "raise" \in {df.kind, budgets.kind} THEN "raise"
                   ELSE "infinite"]

RenderLoaded ==
    /\ figures' = pages_over(load_transactions_records(get_all_records(txSheet)),
                             load_budgets(get_all_records(budgetSheet)), today)
    /\ UNCHANGED <<storeVars, today, response, ocr>>

NextLoad ==
    \/ LoadTransactions
    \/ LoadBudgets
    \/ RenderLoaded

SpecLoad == InitLoad /\ [][NextLoad]_vars

----------------------------------------------------------------------------
(* Receipt text *)

\* A text is a sequence of characters, each written as a string: the digits,
\* "," and " ", "NL" for the line feed, and one romanised name per Hangul
\* syllable ("won" is the currency suffix, "hap" "gye" "geum" "aek" spell the
\* label of the grand total).
Digits == {"0", "1", "2", "3", "4", "5", "6", "7", "8", "9"}

DigitValue ==
    [c \in Digits |->
        CASE c = "0" -> 0 [] c = "1" -> 1 [] c = "2" -> 2 [] c = "3" -> 3
          [] c = "4" -> 4 [] c = "5" -> 5 [] c = "6" -> 6 [] c = "7" -> 7
          [] c = "8" -> 8 [] c = "9" -> 9]

\* text.replace(c, "")
Remove(text, c) == SelectSeq(text, LAMBDA x : x # c)

\* needle in text
Contains(text, needle) ==
    \E i \in 1 .. Len(text) - Len(needle) + 1 :
        SubSeq(text, i, i + Len(needle) - 1) = needle

RECURSIVE split(_)
\* full_text.split("\n")
split(text) ==
    IF \A i \in 1 .. Len(text) : text[i] # "NL" THEN <<text>>
    ELSE LET k == CHOOSE i \in 1 .. Len(text) :
                      /\ text[i] = "NL"
                      /\ \A j \in 1 .. i - 1 : text[j] # "NL"
         IN  <<SubSeq(text, 1, k - 1)>> \o split(SubSeq(text, k + 1, Len(text)))

\* raw.isdigit()
isdigit(raw) == raw # <<>> /\ \A i \in 1 .. Len(raw) : raw[i] \in Digits

RECURSIVE int(_)
\* int(raw) of a string of digits. The numerals of the patterns have at most
\* 12 digits; a value of ten digits or more is kept as 10^9, above every
\* bound it is compared with.
int(raw) ==
    IF raw = <<>> THEN 0
    ELSE LET front == int(SubSeq(raw, 1, Len(raw) - 1)) IN
         IF front >= 100000000 THEN 1000000000
         ELSE front * 10 + DigitValue[raw[Len(raw)]]

\* The bounds of extract_won_amount: 100 <= val <= 99_999_999.
MinAmount == 100

MaxAmount == 99999999

\* The longest numeral the patterns take: [\d,]{1,12}.
MaxNumeralLen == 12

\* [\d,]
NumeralChar(c) == c \in Digits \/ c = ","

\* The length of the run of [\d,] that starts at pos, 12 at most: what the
\* greedy [\d,]{1,12} takes there.
RunFrom(text, pos) ==
    LET ends == { n \in 0 .. MaxNumeralLen :
                    /\ pos + n - 1 <= Len(text)
                    /\ \A i \in pos .. pos + n - 1 : NumeralChar(text[i]) }
    IN  CHOOSE n \in ends : \A k \in ends : k <= n

RECURSIVE finditer(_, _)
\* won_pattern.finditer(text) with won_pattern = ([\d,]{1,12})(?:won)? : the
\* group(1) of the successive matches, each search resuming where the
\* previous match ended.
finditer(text, pos) ==
    IF pos > Len(text) THEN <<>>
    ELSE IF ~NumeralChar(text[pos]) THEN finditer(text, pos + 1)
    ELSE LET n == RunFrom(text, pos)
             end == pos + n
             next == IF end <= Len(text) /\ text[end] = "won"
                     THEN end + 1 ELSE end
         IN  <<SubSeq(text, pos, end - 1)>> \o finditer(text, next)

\* An extract_won_amount that keeps every numeral, whatever its value.
extract_won_amount_unbounded(text) ==
    LET groups == finditer(text, 1)
        raws == [i \in 1 .. Len(groups) |-> Remove(groups[i], ",")]
        kept == SelectSeq(raws, LAMBDA raw : isdigit(raw))
    IN  [i \in 1 .. Len(kept) |-> int(kept[i])]

\* extract_won_amount(text): the values of the numerals of text that are in
\* range, in order.
extract_won_amount(text) ==
    LET groups == finditer(text, 1)
        raws == [i \in 1 .. Len(groups) |-> Remove(groups[i], ",")]
        kept == SelectSeq(raws, LAMBDA raw :
                    /\ isdigit(raw)
                    /\ MinAmount <= int(raw)
                    /\ int(raw) <= MaxAmount)
    IN  [i \in 1 .. Len(kept) |-> int(kept[i])]

\* won_with_suffix.search(line) with won_with_suffix = ([\d,]{1,12})won : the
\* leftmost match. It ends at the first "won" that follows a numeral
\* character, and its group(1) is the run of [\d,] before that "won", its
\* last 12 characters if the run is longer.
won_with_suffix_search(line) ==
    LET ends == { q \in 2 .. Len(line) :
                    line[q] = "won" /\ NumeralChar(line[q - 1]) }
    IN  IF ends = {} THEN [found |-> FALSE, group |-> <<>>]
        ELSE LET q == CHOOSE e \in ends : \A f \in ends : e <= f
                 starts == { p \in 1 .. q - 1 :
                               /\ q - p <= MaxNumeralLen
                               /\ \A i \in p .. q - 1 : NumeralChar(line[i]) }
                 p == CHOOSE s \in starts : \A r \in starts : s <= r
             IN  [found |-> TRUE, group |-> SubSeq(line, p, q - 1)]

\* total_keywords, best first; the position in the list is the priority.
total_keywords ==
    << <<"hap", "gye", "geum", "aek">>, <<"hap", "gye", " ", "geum", "aek">>,
       <<"chong", "hap", "gye">>, <<"chong", " ", "hap", "gye">>,
       <<"gyeol", "je", "geum", "aek">>, <<"gyeol", "je", " ", "geum", "aek">>,
       <<"seung", "in", "geum", "aek">>, <<"seung", "in", " ", "geum", "aek">>,
       <<"hap", "gye">>, <<"hap", " ", "gye">>,
       <<"chong", "aek">>, <<"chong", " ", "aek">>, <<"hap", "san">>,
       <<"bat", "eul", "geum", "aek">>, <<"bat", "eul", " ", "geum", "aek">>,
       <<"cheong", "gu", "geum", "aek">>, <<"cheong", "gu", " ", "geum", "aek">>,
       <<"t", "o", "t", "a", "l">>, <<"a", "m", "o", "u", "n", "t">> >>

\* exclude_keywords
exclude_keywords ==
    { <<"beon", "ho">>, <<"il", "si">>, <<"jong", "ryu">>, <<"gae", "wol">>,
      <<"sang", "ho">>, <<"ju", "so">>, <<"deung", "rok">>,
      <<"sang", "jeom">>, <<"jeong", "bo">> }

\* line_has_exclude(text)
line_has_exclude(text) == \E ex \in exclude_keywords : Contains(text, ex)

\* line.strip().replace(" ", "")
stripped_of(line) == Remove(line, " ")

\* "hapgyegeumaek" in stripped or "hapgye geumaek" in stripped.replace(" ", "")
has_anchor(line) ==
    \/ Contains(stripped_of(line), total_keywords[1])
    \/ Contains(Remove(stripped_of(line), " "), total_keywords[2])

\* A step that leaves the separators in the numeral it converts.
inspect_keeps_separators(line) ==
    LET m == won_with_suffix_search(line)
        raw == m.group
    IN  IF ~m.found THEN [kind |-> "none", val |-> 0]
        ELSE IF ~isdigit(raw) THEN [kind |-> "raise", val |-> 0]
        ELSE IF MinAmount <= int(raw) /\ int(raw) <= MaxAmount
             THEN [kind |-> "amount", val |-> int(raw)]
             ELSE [kind |-> "none", val |-> 0]

\* One step of Strategy 1 on a line: m = won_with_suffix.search(line);
\* val = int(m.group(1).replace(",", "")); the range test. int("") raises
\* ValueError.
inspect(line) ==
    LET m == won_with_suffix_search(line)
        raw == Remove(m.group, ",")
    IN  IF ~m.found THEN [kind |-> "none", val |-> 0]
        ELSE IF raw = <<>> THEN [kind |-> "raise", val |-> 0]
        ELSE IF MinAmount <= int(raw) /\ int(raw) <= MaxAmount
             THEN [kind |-> "amount", val |-> int(raw)]
             ELSE [kind |-> "none", val |-> 0]

RECURSIVE forward_scan(_, _)
\* The label's line, then "for j in range(i + 1, len(lines))": the first
\* line whose first suffixed numeral is in range returns it.
forward_scan(lines, j) ==
    IF j > Len(lines) THEN [kind |-> "none", val |-> 0]
    ELSE LET r == inspect(lines[j]) IN
         IF r.kind # "none" THEN r ELSE forward_scan(lines, j + 1)

RECURSIVE strategy1(_, _)
\* Strategy 1: "for i, line in enumerate(lines)", from line i on.
strategy1(lines, i) ==
    IF i > Len(lines) THEN [kind |-> "none", val |-> 0]
    ELSE IF has_anchor(lines[i])
         THEN LET r == forward_scan(lines, i) IN
              IF r.kind # "none" THEN r ELSE strategy1(lines, i + 1)
         ELSE strategy1(lines, i + 1)

\* A keyword loop that never looks at the next line.
keyword_hits_same_line(lines, i, p) ==
    LET kw_clean == Remove(total_keywords[p + 1], " ")
        amounts == extract_won_amount(lines[i])
    IN  IF Contains(stripped_of(lines[i]), kw_clean)
        THEN [k \in 1 .. Len(amounts) |-> [priority |-> p, val |-> amounts[k]]]
        ELSE <<>>

\* Strategy 2, the body of the keyword loop for line i and the keyword of
\* priority p (0-based): the (priority, val) pairs it appends.
keyword_hits(lines, i, p) ==
    LET kw_clean == Remove(total_keywords[p + 1], " ")
        same == extract_won_amount(lines[i])
        amounts ==
            IF same # <<>> THEN same
            ELSE IF i + 1 <= Len(lines) /\ ~line_has_exclude(lines[i + 1])
                 THEN extract_won_amount(lines[i + 1])
                 ELSE <<>>
    IN  IF Contains(stripped_of(lines[i]), kw_clean)
        THEN [k \in 1 .. Len(amounts) |-> [priority |-> p, val |-> amounts[k]]]
        ELSE <<>>

RECURSIVE line_hits(_, _, _)
\* "for priority, kw in enumerate(total_keywords)" for line i.
line_hits(lines, i, p) ==
    IF p >= Len(total_keywords) THEN <<>>
    ELSE keyword_hits(lines, i, p) \o line_hits(lines, i, p + 1)

RECURSIVE keyword_candidates(_, _)
\* Strategy 2: keyword_candidates after the loop over the lines from i on.
keyword_candidates(lines, i) ==
    IF i > Len(lines) THEN <<>>
    ELSE (IF line_has_exclude(stripped_of(lines[i])) THEN <<>>
          ELSE line_hits(lines, i, 0))
         \o keyword_candidates(lines, i + 1)

\* max(values)
Max(values) ==
    CHOOSE v \in {values[i] : i \in 1 .. Len(values)} :
        \A i \in 1 .. Len(values) : values[i] <= v

\* A choice by value alone, whatever the priority.
best_candidate_any_priority(candidates) ==
    Max([i \in 1 .. Len(candidates) |-> candidates[i].val])

\* sort by (priority, -val); best_priority; max(best_group)
best_candidate(candidates) ==
    LET best_priority ==
            CHOOSE p \in {candidates[i].priority : i \in 1 .. Len(candidates)} :
                \A i \in 1 .. Len(candidates) : p <= candidates[i].priority
        best_group == SelectSeq(candidates, LAMBDA c : c.priority = best_priority)
    IN  Max([i \in 1 .. Len(best_group) |-> best_group[i].val])

\* The decision of extract_amount_from_image on full_text: the strategy that
\* ends the call and the value it found.
find_amount(full_text) ==
    LET lines == split(full_text)
        first == strategy1(lines, 1)
        candidates == keyword_candidates(lines, 1)
        fallback == extract_won_amount(full_text)
    IN  IF first.kind # "none"
        THEN [kind |-> first.kind, val |-> first.val, strategy |-> 1]
        ELSE IF candidates # <<>>
        THEN [kind |-> "amount", val |-> best_candidate(candidates), strategy |-> 2]
        ELSE IF fallback # <<>>
        THEN [kind |-> "amount", val |-> Max(fallback), strategy |-> 3]
        ELSE [kind |-> "none", val |-> 0, strategy |-> 0]

RECURSIVE str(_)
\* str(n) for n >= 0
str(n) ==
    IF n < 10 THEN <<CHOOSE c \in Digits : DigitValue[c] = n>>
    ELSE Append(str(n \div 10), CHOOSE c \in Digits : DigitValue[c] = n % 10)

\* f"{val:,.0f}": the digits with a "," before every group of three.
format_amount(val) ==
    LET digits == str(val)
        n == Len(digits)
        commas == (n - 1) \div 3
        \* the k-th character of the result, counted from the right
        FromRight(k) == IF k % 4 = 0 THEN ","
                        ELSE digits[n - (k - (k \div 4)) + 1]
    IN  [k \in 1 .. n + commas |-> FromRight(n + commas - k + 1)]

\* The return statements of extract_amount_from_image once the text is
\* searched: (amount string, full_text), (None, full_text), or the exception
\* of Strategy 1.
returned(r) ==
    CASE r.kind = "raise" ->
           [kind |-> "raise", detected |-> <<>>, has_text |-> FALSE]
      [] r.kind = "amount" ->
           [kind |-> "amount", detected |-> format_amount(r.val),
            has_text |-> TRUE]
      [] OTHER ->
           [kind |-> "none", detected |-> <<>>, has_text |-> TRUE]

\* extract_amount_from_image: (amount string, full_text), (None, full_text),
\* (None, None), or an exception.
extract_amount_from_image(resp) ==
    IF resp.kind = "raise"
    THEN [kind |-> "raise", detected |-> <<>>, has_text |-> FALSE]
    ELSE IF resp.kind = "error" \/ resp.text = <<>>
    THEN [kind |-> "none", detected |-> <<>>, has_text |-> FALSE]
    ELSE returned(find_amount(resp.text))

----------------------------------------------------------------------------
(* Page: Expense Input, receipt upload *)

\* The lines a receipt may carry.
Anchor == <<"hap", "gye", "geum", "aek">>

Total == <<"hap", "gye">>

ReceiptLines ==
    { \* the grand total with its amount, with and without separators
      Anchor \o <<" ", "1", "0", "0", "won">>,
      Anchor \o <<" ", "1", "0", "0", "0", "0", "won">>,
      Anchor \o <<" ", "1", "0", ",", "0", "0", "0", "won">>,
      Anchor \o <<" ", "9", "9", "9", "9", "9", "9", "9", "9", "won">>,
      \* labels printed apart from their amounts
      Anchor,
      Total,
      \* a better label with a smaller amount, a worse one with a larger
      <<"gyeol", "je", "geum", "aek", " ", "3", ",", "0", "0", "0">>,
      Total \o <<" ", "1", "0", ",", "0", "0", "0", "won">>,
      \* an approval number
      <<"seung", "in", "beon", "ho", " ",
        "1", "2", "3", "4", "5", "6", "7", "won">>,
      \* bare amounts, in range and below it
      <<"9", ",", "0", "0", "0", "won">>,
      <<"5", "0", "won">>,
      \* a card number of 17 digits
      <<"1", "2", "3", "4", "5", "6", "7", "8", "9",
        "0", "1", "2", "3", "4", "5", "6", "7">>,
      \* a grand total whose amount was read as a lone separator
      Anchor \o <<" ", ",", "won">>,
      \* a grand total line with a small suffixed numeral before the amount
      Anchor \o <<" ", "5", "0", "won", " ", "3", ",", "0", "0", "0", "won">> }

RECURSIVE join(_)
\* "\n".join(lines)
join(lines) ==
    IF lines = <<>> THEN <<>>
    ELSE IF Len(lines) = 1 THEN lines[1]
    ELSE lines[1] \o <<"NL">> \o join(Tail(lines))

\* What document_text_detection may give: a text of up to MaxLines lines
\* (none at all included), an error message in the response, or an exception.
Responses ==
    { [kind |-> "ok", text |-> join(ls)] : ls \in SeqsUpTo(ReceiptLines, MaxLines) }
    \cup { [kind |-> "error", text |-> <<>>], [kind |-> "raise", text |-> <<>>] }

InitOcr ==
    /\ worksheet = "none"
    /\ txSheet = <<>>
    /\ budgetSheet = <<>>
    /\ clock = 0
    /\ nextRid = 0
    /\ created = [t \in 1 .. MaxClock |-> 0]
    /\ pc = [s \in Sessions |-> "idle"]
    /\ selected_tx = [s \in Sessions |-> 0]
    /\ sel_row = [s \in Sessions |-> 0]
    /\ edit_form = [s \in Sessions |-> NoEdit]
    /\ edit_idx = [s \in Sessions |-> 0]
    /\ sel = [s \in Sessions |-> BlankBudget]
    /\ dirty = [s \in Sessions |-> FALSE]
    /\ last = NoLast
    /\ today = [year |-> 2025, month |-> 2]
    /\ figures = [page |-> "none"]
    /\ response \in Responses
    /\ ocr = NoOcr
    /\ month0_entries = [s \in Sessions |-> <<>>]

\* The try block around extract_amount_from_image: st.success with the
\* amount, st.warning "not recognised, enter it by hand", or, in the except
\* branch, st.warning "error during OCR"; the expander shows ocr_text.
shown(r) ==
    CASE r.kind = "raise" ->
           [message |-> "error", detected |-> <<>>, expander |-> FALSE]
      [] r.kind = "amount" ->
           [message |-> "success", detected |-> r.detected,
            expander |-> r.has_text]
      [] OTHER ->
           [message |-> "not_detected", detected |-> <<>>,
            expander |-> r.has_text]

\* The page's outcome for a response of the OCR service.
ocr_outcome(resp) == shown(extract_amount_from_image(resp))

\* A default that reads the digits up to the first separator only.
default_amount_first_group(ocr_amount) ==
    IF ocr_amount = <<>> THEN 0
    ELSE IF \E i \in 1 .. Len(ocr_amount) : ocr_amount[i] = ","
    THEN int(SubSeq(ocr_amount, 1,
             (CHOOSE i \in 1 .. Len(ocr_amount) :
                 /\ ocr_amount[i] = ","
                 /\ \A j \in 1 .. i - 1 : ocr_amount[j] # ",") - 1))
    ELSE int(ocr_amount)

\* default_amount = int(float(ocr_amount.replace(",", ""))) if ocr_amount
\*                  else 0
default_amount(ocr_amount) ==
    IF ocr_amount = <<>> THEN 0 ELSE int(Remove(ocr_amount, ","))

\* The script run of the page with a receipt uploaded.
RunOcr ==
    /\ ocr = NoOcr
    /\ month0_entries = [s \in Sessions |-> <<>>]
    /\ ocr' = ocr_outcome(response)
    /\ UNCHANGED <<storeVars, today, figures, response>>

NextOcr == RunOcr

SpecOcr == InitOcr /\ [][NextOcr]_vars

----------------------------------------------------------------------------
(* Page: Expense Input, the form *)

\* What the user may have chosen in the file uploader when the page runs:
\* nothing, or a receipt whose text is one of the receipt lines, whose text
\* is empty, for which the service reports an error, or for which the call
\* raises. The same file gives the same response at every run of the script.
FormResponses ==
    { [kind |-> "ok", text |-> l] : l \in ReceiptLines }
    \cup { [kind |-> "ok", text |-> <<>>], [kind |-> "error", text |-> <<>>],
           [kind |-> "raise", text |-> <<>>], NoResponse }

\* What the user may type in the amount field over its default, and in the
\* description field.
TypedAmounts == {0, 7000}
TypedDescriptions == {"", "keys"}

\* upload_to_drive: the link of the stored file, or an exception.
UploadOutcomes == {"http://r", "raise"}

\* The part of the script before the form: ocr_amount = "" unless a file was
\* uploaded and the extractor detected an amount.
run_ocr(resp) == IF resp = NoResponse THEN NoOcr ELSE ocr_outcome(resp)

\* The form as a run of the script draws it: the amount field holds
\* default_amount, the description is empty (clear_on_submit).
expense_form(ocr_amount, message, warned) ==
    [page |-> "expense_input", default_amount |-> default_amount(ocr_amount),
     amount |-> default_amount(ocr_amount), description |-> "",
     message |-> message, upload_warning |-> warned]

InitForm ==
    /\ worksheet = "Transactions"
    /\ txSheet = <<>>
    /\ budgetSheet = <<>>
    /\ clock = 0
    /\ nextRid = 2
    /\ created = [t \in 1 .. MaxClock |-> 0]
    /\ pc = [s \in Sessions |-> "idle"]
    /\ selected_tx = [s \in Sessions |-> 0]
    /\ sel_row = [s \in Sessions |-> 0]
    /\ edit_form = [s \in Sessions |-> NoEdit]
    /\ edit_idx = [s \in Sessions |-> 0]
    /\ sel = [s \in Sessions |-> BlankBudget]
    /\ dirty = [s \in Sessions |-> FALSE]
    /\ last = NoLast
    /\ today = [year |-> 2025, month |-> 2]
    /\ figures = [page |-> "none"]
    /\ response \in FormResponses
    /\ ocr = NoOcr
    /\ month0_entries = [s \in Sessions |-> <<>>]

\* The run of the script after the user chose the file (or opened the page
\* without one): the OCR outcome is shown and the form drawn.
RenderExpenseInput ==
    /\ figures.page = "none"
    /\ ocr' = run_ocr(response)
    /\ figures' = expense_form(ocr'.detected, "none", FALSE)
    /\ UNCHANGED <<storeVars, today, response>>

\* The user types in the fields of the form; nothing runs until the submit.
FillForm(d) ==
    /\ figures.page = "expense_input"
    /\ \E a \in TypedAmounts \cup {figures.default_amount} :
          figures' = [figures EXCEPT !.amount = a, !.description = d]
    /\ figures' # figures
    /\ UNCHANGED <<storeVars, today, response, ocr>>

\* A validation that looks at the amount only.
form_error_amount_only(amount, description) ==
    IF amount <= 0 THEN "amount_error" ELSE "none"

\* if amount <= 0: st.error(...) elif not description: st.error(...) else:
\* the branch that saves.
form_error(amount, description) ==
    IF amount <= 0 THEN "amount_error"
    ELSE IF description = "" THEN "description_error"
    ELSE "none"

\* "save": the script runs again with the values of the form: the OCR part,
\* the validation, the upload of the receipt if there is one, ws.append_row,
\* the cache clear; the form is drawn cleared.
SubmitForm(up) ==
    /\ figures.page = "expense_input"
    /\ clock < MaxClock
    /\ ocr' = run_ocr(response)
    /\ IF form_error(figures.amount, figures.description) # "none"
       THEN /\ figures' = expense_form(ocr'.detected,
                               form_error(figures.amount, figures.description),
                               FALSE)
            /\ UNCHANGED storeVars
       ELSE LET uploaded == response # NoResponse
                receipt_url == IF uploaded /\ up # "raise" THEN up ELSE ""
            IN  /\ clock' = clock + 1
                /\ txSheet' = append_row(txSheet,
                       [Date |-> [y |-> 2025, m |-> 2], Category |-> "A",
                        Description |-> figures.description,
                        Amount |-> figures.amount, PaymentMethod |-> "card",
                        ReceiptURL |-> receipt_url, OCRAmount |-> ocr'.detected,
                        SubmittedBy |-> "kim", Timestamp |-> clock + 1])
                /\ created' = [created EXCEPT ![clock + 1] = figures.amount]
                /\ figures' = expense_form(ocr'.detected, "saved",
                                           uploaded /\ up = "raise")
                /\ UNCHANGED <<month0_entries, worksheet, budgetSheet, nextRid, pc, selected_tx,
                               sel_row, edit_form, edit_idx, sel, dirty, last>>
    /\ UNCHANGED <<today, response>>

NextForm ==
    \/ RenderExpenseInput
    \/ \E d \in TypedDescriptions : FillForm(d)
    \/ \E up \in UploadOutcomes : SubmitForm(up)

SpecForm == InitForm /\ [][NextForm]_vars

----------------------------------------------------------------------------
(* Steps of the pages, as the properties below name them *)

\* Session s takes the "save edit" step of the Transaction History page.
TxEditStep(s) ==
    pc[s] = "form" /\ pc'[s] = "idle" /\ last'.op = "edit" /\ last'.s = s

\* Session s takes the delete step of the Transaction History page.
TxDeleteStep(s) ==
    pc[s] = "form" /\ pc'[s] = "idle" /\ last'.op = "delete" /\ last'.s = s

BudgetEditStep(s) ==
    pc[s] = "budget_form" /\ pc'[s] = "idle" /\ last'.op = "budget_edit"
    /\ last'.s = s

BudgetDeleteStep(s) ==
    pc[s] = "budget_form" /\ pc'[s] = "idle" /\ last'.op = "budget_delete"
    /\ last'.s = s

\* new is old with the row at position k taken out (k past the end: nothing
\* taken out); rows before k stay, rows after k move up by one, and a row that
\* held nothing may drop off the end.
RowRemoved(old, new, k, blank) ==
    /\ Len(new) <= Len(old)
    /\ \A j \in 1 .. Len(new) :
          IF j < k THEN new[j] = old[j]
          ELSE j + 1 <= Len(old) /\ new[j] = old[j + 1]
    /\ \A j \in 1 .. Len(old) :
          (j # k /\ old[j] # blank) => (IF j < k THEN j ELSE j - 1) <= Len(new)

\* new is old with only the cells of the edit form changed in row k.
TxRowEdited(old, new, k) ==
    /\ k \in 1 .. Len(old)
    /\ Len(new) = Len(old)
    /\ \A j \in 1 .. Len(old) : j # k => new[j] = old[j]
    /\ \E e \in EditInputs :
          new[k] = [Date |-> old[k].Date, Category |-> e.Category,
                    Description |-> e.Description, Amount |-> old[k].Amount,
                    PaymentMethod |-> e.PaymentMethod,
                    ReceiptURL |-> old[k].ReceiptURL,
                    OCRAmount |-> old[k].OCRAmount,
                    SubmittedBy |-> e.SubmittedBy,
                    Timestamp |-> old[k].Timestamp]

----------------------------------------------------------------------------
(* C1  Amount immutability. In every reachable state of the interleaved     *)
(* create, edit and delete operations of the sessions, every transaction    *)
(* still in the sheet holds the Amount it was created with, and a row that  *)
(* no creation wrote has a blank Amount: only creation writes the column.   *)
C1_AmountImmutable ==
    \A i \in 1 .. Len(txSheet) :
        IF txSheet[i].Timestamp # 0
        THEN txSheet[i].Amount = created[txSheet[i].Timestamp]
             /\ txSheet[i].Amount > 0
        ELSE txSheet[i].Amount = 0

\* An edited transaction that survived a later delete, its amount intact.
C1_Witness ==
    /\ last.op = "delete"
    /\ \E i \in 1 .. Len(txSheet) :
          /\ txSheet[i].Timestamp # 0
          /\ txSheet[i].Category = "C"
          /\ txSheet[i].Amount = 12000

(* C2  A delete of the history view takes one row out of the sheet (the row *)
(* is gone, not marked): every other row is still there, field for field    *)
(* and so with its Amount, in the same relative order, and when the row     *)
(* addressed holds a record the sheet is one row shorter at least.          *)
C2_DeleteFrame ==
    [][\A s \in Sessions :
          TxDeleteStep(s) =>
             \E k \in 1 .. Len(txSheet) + 1 :
                /\ RowRemoved(txSheet, txSheet', k, BlankTx)
                /\ k <= Len(txSheet) => Len(txSheet') < Len(txSheet)
                /\ (~dirty[s]) => (k <= Len(txSheet)
                                   /\ txSheet[k].Timestamp = sel_row[s])]_vars

\* A delete has removed the first of two transactions; the other remains.
C2_Witness ==
    /\ last.op = "delete"
    /\ clock = 2
    /\ Len(txSheet) = 1
    /\ txSheet[1].Timestamp = 2
    /\ txSheet[1].Amount = created[2]

C4_PositionalWrite ==
    [][\A s \in Sessions :
          /\ TxEditStep(s) =>
                /\ (~(selected_tx[s] + 1 <= Len(txSheet)
                      /\ txSheet[selected_tx[s] + 1].Timestamp = sel_row[s]))
                   => (dirty[s] /\ last'.hit # "selected")
                /\ \A j \in 1 .. Len(txSheet) :
                      j # selected_tx[s] + 1 => txSheet'[j] = txSheet[j]
                /\ \E e \in EditInputs :
                      txSheet'[selected_tx[s] + 1].Category = e.Category
          /\ TxDeleteStep(s) =>
                /\ (~(selected_tx[s] + 1 <= Len(txSheet)
                      /\ txSheet[selected_tx[s] + 1].Timestamp = sel_row[s]))
                   => (dirty[s] /\ last'.hit # "selected")
                /\ RowRemoved(txSheet, txSheet', selected_tx[s] + 1, BlankTx)
          /\ BudgetEditStep(s) =>
                /\ (~(edit_idx[s] + 1 <= Len(budgetSheet)
                      /\ budgetSheet[edit_idx[s] + 1].rid = sel[s].rid))
                   => (dirty[s] /\ last'.hit # "selected")
                /\ \A j \in 1 .. Len(budgetSheet) :
                      j # edit_idx[s] + 1 => budgetSheet'[j] = budgetSheet[j]
                /\ budgetSheet'[edit_idx[s] + 1].Month \in 1 .. 12
          /\ BudgetDeleteStep(s) =>
                /\ (~(edit_idx[s] + 1 <= Len(budgetSheet)
                      /\ budgetSheet[edit_idx[s] + 1].rid = sel[s].rid))
                   => (dirty[s] /\ last'.hit # "selected")
                /\ RowRemoved(budgetSheet, budgetSheet', edit_idx[s] + 1,
                              BlankBudget)]_vars

\* A write of a page has hit a row that did not hold the record selected.
C4_Witness ==
    /\ last.op \in {"edit", "delete", "budget_edit", "budget_delete"}
    /\ last.hit = "other"

\* The four cases of it, one by one.
C4_TxEditShifted == last.op = "edit" /\ last.hit = "other"
C4_TxDeleteShifted == last.op = "delete" /\ last.hit = "other"
C4_BudgetEditShifted == last.op = "budget_edit" /\ last.hit = "other"
C4_BudgetDeleteShifted == last.op = "budget_delete" /\ last.hit = "other"

----------------------------------------------------------------------------
(* Budget resolution and the figures of the pages *)

RECURSIVE SumOver(_, _)
\* The sum of f over the indices I.
SumOver(I, f) ==
    IF I = {} THEN 0
    ELSE LET i == CHOOSE j \in I : TRUE IN f[i] + SumOver(I \ {i}, f)

Amounts == [i \in 1 .. Len(txSheet) |-> txSheet[i].Amount]

Budgeted == [i \in 1 .. Len(budgetSheet) |-> budgetSheet[i].MonthlyBudget]

\* The rows of the Budget worksheet of one year and one month.
Matching(y, m) ==
    { i \in 1 .. Len(budgetSheet) :
        budgetSheet[i].Year = y /\ budgetSheet[i].Month = m }

\* The rows of the Budget worksheet of the months from .. to of this year.
BudgetRowsOf(from, to) ==
    { i \in 1 .. Len(budgetSheet) :
        /\ budgetSheet[i].Year = today.year
        /\ budgetSheet[i].Month >= from
        /\ budgetSheet[i].Month <= to }

\* The transactions dated in the months from .. to of this year.
TxRowsOf(from, to) ==
    { i \in 1 .. Len(txSheet) :
        /\ txSheet[i].Date.y = today.year
        /\ txSheet[i].Date.m >= from
        /\ txSheet[i].Date.m <= to }

QueryYears == {2024, 2025}

\* C5: get_budget_for_month(budgets, year, month) returns exactly the rows
\* with Year = year and Month = month, all of them and nothing else, and an
\* empty result when no row matches: no row of another month and no Month = 0
\* row of the year stands in. The dashboard's monthly budget is the sum of
\* exactly those rows.
C5_StrictResolution ==
    /\ \A y \in QueryYears, m \in 1 .. 12 :
          LET r == get_budget_for_month(budgetSheet, y, m) IN
          /\ \A i \in 1 .. Len(r) : r[i].Year = y /\ r[i].Month = m
          /\ {r[i].rid : i \in 1 .. Len(r)}
                = {budgetSheet[i].rid : i \in Matching(y, m)}
          /\ Len(r) = Cardinality(Matching(y, m))
          /\ Matching(y, m) = {} => r = <<>>
    /\ figures.page = "dashboard"
          => figures.monthly_budget
                = SumOver(Matching(today.year, today.month), Budgeted)

\* The dashboard is drawn for a month that has no row of its own while the
\* year has a Month = 0 row with a budget: the monthly budget shown is 0.
C5_Witness ==
    /\ figures.page = "dashboard"
    /\ Matching(today.year, today.month) = {}
    /\ \E i \in Matching(today.year, 0) : budgetSheet[i].MonthlyBudget > 0
    /\ figures.monthly_budget = 0

WithoutMonth0(budgets) == SelectSeq(budgets, LAMBDA b : b.Month # 0)

C7_Carryover ==
    figures.page = "dashboard" =>
        LET prior_budget == SumOver(BudgetRowsOf(1, today.month - 1), Budgeted)
            prior_spent == SumOver(TxRowsOf(1, today.month - 1), Amounts)
        IN  /\ figures.prev_months_budget = prior_budget
            /\ figures.prev_months_spent = prior_spent
            /\ figures.carryover = prior_budget - prior_spent
            /\ figures.carryover < 0 <=> prior_spent > prior_budget

\* The dashboard shows a negative carryover while the worksheet also holds a
\* transaction of the current or a later month, or of another year.
C7_Witness ==
    /\ figures.page = "dashboard"
    /\ figures.carryover < 0
    /\ \E i \in 1 .. Len(txSheet) :
          \/ txSheet[i].Date.y # today.year
          \/ txSheet[i].Date.m >= today.month

\* Budgets Jan = 10000 and Feb = 10000, one January spend of 12000, seen in
\* February.
JanFebScenario ==
    /\ today = [year |-> 2025, month |-> 2]
    /\ Len(budgetSheet) = 2
    /\ \A i \in 1 .. 2 :
          /\ budgetSheet[i].MonthlyBudget = 10000
          /\ budgetSheet[i].Year = 2025
    /\ {budgetSheet[1].Month, budgetSheet[2].Month} = {1, 2}
    /\ Len(txSheet) = 1
    /\ txSheet[1].Amount = 12000
    /\ txSheet[1].Date = [y |-> 2025, m |-> 1]

\* C8: available_budget = monthly_budget + carryover and remaining =
\* available_budget - this_month_spent, where this_month_spent sums only the
\* transactions dated in the current month of the year; neither is clamped at
\* zero. With Jan = 10000, Feb = 10000 and one January spend of 12000 the
\* figures for February are carryover = -2000 and available = 8000.
C8_AvailableRemaining ==
    figures.page = "dashboard" =>
        LET spent == SumOver(TxRowsOf(today.month, today.month), Amounts) IN
        /\ figures.this_month_spent = spent
        /\ figures.available_budget = figures.monthly_budget + figures.carryover
        /\ figures.remaining = figures.available_budget - spent
        /\ JanFebScenario =>
              /\ figures.carryover = 0 - 2000
              /\ figures.available_budget = 8000

\* The dashboard of February in the scenario of C8.
C8_Witness ==
    /\ figures.page = "dashboard"
    /\ JanFebScenario
    /\ figures.available_budget = 8000

\* The dashboard shows an available budget and a remaining budget below zero.
C8_NegativeReached ==
    /\ figures.page = "dashboard"
    /\ figures.available_budget < 0
    /\ figures.remaining < figures.available_budget

ZeroPercent == [kind |-> "pct", tenths |-> 0]

\* The per-category tables report 0 for a category whose budget is 0.
C9_ComparisonZero ==
    figures.page \in {"excel", "report"} =>
        \A i \in 1 .. Len(figures.comparison) :
            figures.comparison[i].budget = 0 => figures.comparison[i].pct = 0

\* A per-category table holds a category with a budget of 0 and a spend.
C9_ComparisonZeroReached ==
    /\ figures.page \in {"excel", "report"}
    /\ \E i \in 1 .. Len(figures.comparison) :
          /\ figures.comparison[i].budget = 0
          /\ figures.comparison[i].spent > 0

\* C9: wherever a utilization percentage is produced (the per-category
\* tables of the Excel report and of the Report page, the year-to-date usage
\* of the dashboard, the overall utilization of the report summary), it is
\* reported as 0 when the budget is 0, whatever the spend.
C9_UtilizationZero ==
    /\ C9_ComparisonZero
    /\ (figures.page = "excel" /\ figures.total_budget = 0)
          => figures.utilization = ZeroPercent

\* The dashboard's part of C9: with a year-to-date budget of 0 the usage
\* line reads 0%.
C9_DashboardZero ==
    (figures.page = "dashboard" /\ figures.ytd_budget = 0)
        => figures.usage_pct = ZeroPercent

\* The categories with a transaction among the rows I.
SpentCategories(I) == { txSheet[i].Category : i \in I }

\* The per-category table lists category c with what the rows I spent on it,
\* and with budget 0 and remaining = -spend if no budget row of the months
\* 1 .. current_month of the year names c.
Listed(table, c, I) ==
    \E k \in 1 .. Len(table) :
        /\ table[k].cat = c
        /\ table[k].spent
              = SumOver({ i \in I : txSheet[i].Category = c }, Amounts)
        /\ (\A j \in BudgetRowsOf(1, today.month) : budgetSheet[j].Category # c)
              => /\ table[k].budget = 0
                 /\ table[k].remaining = 0 - table[k].spent

\* C10: in the per-category budget-vs-actual tables (sheet 4 of the Excel
\* report, over the transactions of the year; the preview of the Report
\* page, over all transactions) every category with spend is listed, and one
\* with no matching budget row is listed with budget 0 and remaining =
\* -spend. Stated for the renders that draw the table at all.
C10_UnbudgetedListed ==
    /\ (figures.page = "excel" /\ figures.comparison # <<>>) =>
          LET I == { i \in 1 .. Len(txSheet) : txSheet[i].Date.y = today.year }
          IN  \A c \in SpentCategories(I) : Listed(figures.comparison, c, I)
    /\ (figures.page = "report" /\ figures.comparison # <<>>) =>
          LET I == 1 .. Len(txSheet)
          IN  \A c \in SpentCategories(I) : Listed(figures.comparison, c, I)

----------------------------------------------------------------------------
(* Duplicate budget rows *)

\* The rows of the Budget worksheet of category c in the months 1 .. m of
\* year y.
CategoryRows(sheet, c, y, m) ==
    { i \in 1 .. Len(sheet) :
        /\ sheet[i].Category = c
        /\ sheet[i].Year = y
        /\ sheet[i].Month >= 1
        /\ sheet[i].Month <= m }

\* Every aggregate of a period is the sum over all its rows of the sheet.
DuplicatesSummed(sheet) ==
    LET amount == [i \in 1 .. Len(sheet) |-> sheet[i].MonthlyBudget] IN
    \A now \in Todays :
        /\ month_budget_total(load_budgets_fresh(sheet), now.year, now.month)
              = SumOver({ i \in 1 .. Len(sheet) :
                            /\ sheet[i].Year = now.year
                            /\ sheet[i].Month = now.month }, amount)
        /\ LET by_cat == budget_by_cat(load_budgets_fresh(sheet), now) IN
           /\ { by_cat[k].cat : k \in 1 .. Len(by_cat) }
                 = { sheet[i].Category :
                       i \in { j \in 1 .. Len(sheet) :
                                 /\ sheet[j].Year = now.year
                                 /\ sheet[j].Month >= 1
                                 /\ sheet[j].Month <= now.month } }
           /\ \A k \in 1 .. Len(by_cat) :
                 by_cat[k].budget
                    = SumOver(CategoryRows(sheet, by_cat[k].cat,
                                           now.year, now.month), amount)

\* Two rows of the sheet carry the same category, year and month.
HasDuplicate(sheet) ==
    \E i, j \in 1 .. Len(sheet) :
        /\ i < j
        /\ sheet[i].Category = sheet[j].Category
        /\ sheet[i].Year = sheet[j].Year
        /\ sheet[i].Month = sheet[j].Month

\* C11: several budget rows may exist for one (category, year, month): a
\* valid "add budget" appends its row whatever the sheet already holds, every
\* other row staying as it was, and after every step the monthly budget and
\* the per-category cumulative budget of a period are the sums over all the
\* matching rows, duplicates included.
C11_DuplicatesSummed ==
    [][ /\ nextRid' # nextRid =>
              /\ Len(budgetSheet') = Len(budgetSheet) + 1
              /\ SubSeq(budgetSheet', 1, Len(budgetSheet)) = budgetSheet
        /\ DuplicatesSummed(budgetSheet') ]_vars

\* A budget was added for a category and month that already had a row: the
\* sheet holds both, and the month's budget is their sum.
C11_Witness ==
    /\ last.op = "budget_add"
    /\ HasDuplicate(budgetSheet)
    /\ month_budget_total(budgetSheet, 2025, 2) = 20000

----------------------------------------------------------------------------
(* The amount extractor *)

\* The receipt text came back and the page has run the extractor on it.
Extracted == ocr # NoOcr /\ response.kind = "ok"

\* The lines of the receipt text.
TextLines == IF response.text = <<>> THEN <<>> ELSE split(response.text)

\* The number the amount string shown by the page stands for.
DetectedValue == default_amount(ocr.detected)

\* C12: whatever strategy produces it, an amount the extractor returns is
\* an integer v with 100 <= v <= 99,999,999; for every text the result is
\* absent or in that range.
C12_AmountInRange ==
    ocr # NoOcr =>
        \/ ocr.detected = <<>> /\ ocr.message # "success"
        \/ /\ ocr.message = "success"
           /\ isdigit(Remove(ocr.detected, ","))
           /\ 100 <= DetectedValue
           /\ DetectedValue <= 99999999

\* The fallback returned an amount while the text also held a numeral out
\* of range.
C12_Witness ==
    /\ Extracted
    /\ ocr.message = "success"
    /\ find_amount(response.text).strategy = 3
    /\ \E i \in 1 .. Len(TextLines) :
          TextLines[i] \in { <<"5", "0", "won">>,
                             <<"1", "2", "3", "4", "5", "6", "7", "8", "9",
                               "0", "1", "2", "3", "4", "5", "6", "7">> }

\* Each strategy returns an amount for some text.
C12_AnchoredReached ==
    Extracted /\ ocr.message = "success"
        /\ find_amount(response.text).strategy = 1

C12_KeywordReached ==
    Extracted /\ ocr.message = "success"
        /\ find_amount(response.text).strategy = 2

\* The amounts the synthetic lines of C13 are written from, each with the
\* characters of its writing.
FormattedAmounts ==
    { [v |-> 100, chars |-> <<"1", "0", "0">>],
      [v |-> 10000, chars |-> <<"1", "0", "0", "0", "0">>],
      [v |-> 10000, chars |-> <<"1", "0", ",", "0", "0", "0">>],
      [v |-> 99999999,
       chars |-> <<"9", "9", "9", "9", "9", "9", "9", "9">>] }

\* C13: for an amount v in range, written with or without thousands
\* separators, the text of the single line "<grand total label> <v>won"
\* makes the extractor return exactly v.
C13_AnchoredLine ==
    \A fa \in FormattedAmounts :
        (Extracted /\ response.text = Anchor \o <<" ">> \o fa.chars \o <<"won">>)
            => /\ ocr.message = "success"
               /\ DetectedValue = fa.v

\* The line with the amount written with a separator was extracted.
C13_Witness ==
    /\ Extracted
    /\ response.text = Anchor \o <<" ", "1", "0", ",", "0", "0", "0", "won">>
    /\ ocr.detected = <<"1", "0", ",", "0", "0", "0">>

\* Every writing of FormattedAmounts is among the texts explored.
C13_AllWritingsExplored ==
    \A fa \in FormattedAmounts :
        [kind |-> "ok", text |-> Anchor \o <<" ">> \o fa.chars \o <<"won">>]
            \in Responses

CardNumber ==
    <<"1", "2", "3", "4", "5", "6", "7", "8", "9",
      "0", "1", "2", "3", "4", "5", "6", "7">>

ApprovalLine ==
    <<"seung", "in", "beon", "ho", " ", "1", "2", "3", "4", "5", "6", "7", "won">>

\* The lines that hold one number out of range and nothing else: 50, and a
\* number of 17 digits.
OutOfRangeLines == { <<"5", "0", "won">>, CardNumber }

\* C14: a line that holds only a number below 100 or above 99,999,999 gives
\* no candidate, also when the number is longer than the 12 characters of
\* the numeral pattern: a text made of such lines has no amount.
C14_OutOfRangeRejected ==
    (/\ Extracted
     /\ TextLines # <<>>
     /\ \A i \in 1 .. Len(TextLines) : TextLines[i] \in OutOfRangeLines)
        => ocr.message = "not_detected"

\* The part of C14 about numbers that fit the pattern: a text of lines "50won"
\* has no amount.
C14_ShortNumberRejected ==
    (/\ Extracted
     /\ TextLines # <<>>
     /\ \A i \in 1 .. Len(TextLines) : TextLines[i] = <<"5", "0", "won">>)
        => ocr.message = "not_detected"

\* The values of the in-range numerals of the lines that hold no exclusion
\* term.
AllowedValues ==
    UNION { { extract_won_amount(TextLines[i])[k] :
                k \in 1 .. Len(extract_won_amount(TextLines[i])) } :
            i \in { j \in 1 .. Len(TextLines) : ~line_has_exclude(TextLines[j]) } }

\* C15: a line that holds an exclusion term never wins: the amount returned
\* is a numeral of a line without exclusion term, whichever strategy returns
\* it; for the lines "<total label> 10,000won" and "<approval number>
\* 1234567won" the amount is 10,000.
C15_ExclusionNeverWins ==
    /\ (Extracted /\ ocr.message = "success") => DetectedValue \in AllowedValues
    /\ (Extracted /\ response.text
            = join(<<Total \o <<" ", "1", "0", ",", "0", "0", "0", "won">>,
                     ApprovalLine>>))
          => DetectedValue = 10000

\* The example of C15 alone.
C15_Example ==
    (Extracted /\ response.text
        = join(<<Total \o <<" ", "1", "0", ",", "0", "0", "0", "won">>,
                 ApprovalLine>>))
        => DetectedValue = 10000

C15_ExampleReached ==
    /\ Extracted
    /\ response.text
          = join(<<Total \o <<" ", "1", "0", ",", "0", "0", "0", "won">>,
                   ApprovalLine>>)
    /\ ocr.message = "success"

\* What Strategy 1 gives on the text, and the candidates of Strategy 2.
AnchoredNone == strategy1(TextLines, 1).kind = "none"

Candidates == keyword_candidates(TextLines, 1)

\* C16: when the anchored strategy gives no result and the keyword search
\* has at least one candidate, the amount returned is the largest value
\* among the candidates of the best (lowest) priority; a candidate of a
\* worse priority is never returned while a better one exists, however
\* large its value.
C16_BestRankMax ==
    (Extracted /\ AnchoredNone /\ Candidates # <<>>) =>
        LET found == Candidates
            shown_value == DetectedValue
        IN  /\ ocr.message = "success"
            /\ \E i \in 1 .. Len(found) :
                  /\ found[i].val = shown_value
                  /\ \A j \in 1 .. Len(found) :
                        /\ found[i].priority <= found[j].priority
                        /\ found[j].priority = found[i].priority
                              => found[j].val <= shown_value

\* The keyword search returned an amount while a candidate of a worse
\* priority had a larger value.
C16_Witness ==
    /\ Extracted
    /\ AnchoredNone
    /\ ocr.message = "success"
    /\ \E j \in 1 .. Len(Candidates) : Candidates[j].val > DetectedValue

\* The priorities of the labels line i contains, spaces ignored.
LabelRanks(i) ==
    { p \in 0 .. Len(total_keywords) - 1 :
        Contains(Remove(TextLines[i], " "), Remove(total_keywords[p + 1], " ")) }

\* Line i holds a total label and no exclusion term.
IsLabelLine(i) ==
    /\ LabelRanks(i) # {}
    /\ ~line_has_exclude(Remove(TextLines[i], " "))

BestRank(i) == CHOOSE p \in LabelRanks(i) : \A q \in LabelRanks(i) : p <= q

\* The in-range values of line i.
ValuesOf(i) ==
    { extract_won_amount(TextLines[i])[k] :
        k \in 1 .. Len(extract_won_amount(TextLines[i])) }

\* Line i is a label line with no in-range numeral of its own, followed by a
\* line with no exclusion term that holds one.
Paired(i) ==
    /\ i + 1 <= Len(TextLines)
    /\ IsLabelLine(i)
    /\ ValuesOf(i) = {}
    /\ ~line_has_exclude(TextLines[i + 1])
    /\ ValuesOf(i + 1) # {}

NextLineMax(i) == CHOOSE v \in ValuesOf(i + 1) : \A w \in ValuesOf(i + 1) : w <= v

\* C17 as stated: in the keyword search, when a label line without
\* exclusion term has no in-range numeral and the following line has no
\* exclusion term, the extractor returns the value of that following line.
C17_NextLineReturned ==
    (Extracted /\ AnchoredNone) =>
        \A i \in 1 .. Len(TextLines) :
            Paired(i) => ocr.message = "success" /\ DetectedValue = NextLineMax(i)

\* C17, amended: the candidates of such a label line are the values of the
\* following line, tagged with the label's priorities, and the extractor
\* returns the largest of them unless another candidate has a better
\* priority, or the same priority and a larger value; a candidate comes from
\* the line of its label, or from the following line only if the label's
\* line has no in-range numeral and the following line no exclusion term.
C17_NextLinePairing ==
    (Extracted /\ AnchoredNone) =>
        LET found == Candidates
            shown_value == DetectedValue
        IN  /\ \A i \in 1 .. Len(TextLines) :
                  Paired(i) =>
                     /\ \A p \in LabelRanks(i), v \in ValuesOf(i + 1) :
                           \E k \in 1 .. Len(found) :
                               found[k] = [priority |-> p, val |-> v]
                     /\ ocr.message = "success"
                     /\ \/ shown_value = NextLineMax(i)
                        \/ \E k \in 1 .. Len(found) :
                              \/ found[k].priority < BestRank(i)
                              \/ /\ found[k].priority = BestRank(i)
                                 /\ found[k].val > NextLineMax(i)
            /\ \A k \in 1 .. Len(found) :
                  \E i \in 1 .. Len(TextLines) :
                     /\ IsLabelLine(i)
                     /\ found[k].priority \in LabelRanks(i)
                     /\ \/ found[k].val \in ValuesOf(i)
                        \/ /\ ValuesOf(i) = {}
                           /\ i + 1 <= Len(TextLines)
                           /\ ~line_has_exclude(TextLines[i + 1])
                           /\ found[k].val \in ValuesOf(i + 1)

\* The label alone on a line, the amount on the next, and the amount is
\* returned.
C17_Witness ==
    /\ Extracted
    /\ AnchoredNone
    /\ \E i \in 1 .. Len(TextLines) :
          Paired(i) /\ TextLines[i] = Total /\ DetectedValue = NextLineMax(i)

\* A label line whose following line holds an exclusion term, and one with
\* an amount of its own before a line with another amount, were explored.
C17_NotConsultedReached ==
    /\ Extracted
    /\ AnchoredNone
    /\ \E i \in 1 .. Len(TextLines) - 1 :
          /\ IsLabelLine(i)
          /\ ValuesOf(i) = {}
          /\ line_has_exclude(TextLines[i + 1])
          /\ Candidates = <<>>

\* The positions of line at which a "won" follows a numeral character.
SuffixEnds(line) ==
    { q \in 2 .. Len(line) : line[q] = "won" /\ NumeralChar(line[q - 1]) }

\* The whole numeral that ends before position q.
NumeralBefore(line, q) ==
    LET starts == { p \in 1 .. q - 1 :
                      \A i \in p .. q - 1 : NumeralChar(line[i]) }
        p == CHOOSE s \in starts : \A r \in starts : s <= r
    IN  Remove(SubSeq(line, p, q - 1), ",")

\* The positions of the suffixed numerals of line that are in range.
ValidSuffixEnds(line) ==
    { q \in SuffixEnds(line) :
        /\ isdigit(NumeralBefore(line, q))
        /\ 100 <= int(NumeralBefore(line, q))
        /\ int(NumeralBefore(line, q)) <= 99999999 }

\* The lines that hold the grand total label, spaces ignored.
AnchorLines ==
    { i \in 1 .. Len(TextLines) : Contains(Remove(TextLines[i], " "), Anchor) }

\* The lines from the first label line on that hold a suffixed numeral in
\* range.
AnchoredLines ==
    { j \in 1 .. Len(TextLines) :
        /\ \E i \in AnchorLines : i <= j
        /\ ValidSuffixEnds(TextLines[j]) # {} }

\* C18: if a line holds the grand total label and a suffixed numeral in
\* range stands on that line or on a later one, the extractor returns the
\* first such numeral in line order, whatever the keyword search or the
\* fallback would give.
C18_AnchoredFirst ==
    (Extracted /\ AnchoredLines # {}) =>
        LET j == CHOOSE a \in AnchoredLines : \A b \in AnchoredLines : a <= b
            q == CHOOSE e \in ValidSuffixEnds(TextLines[j]) :
                     \A f \in ValidSuffixEnds(TextLines[j]) : e <= f
        IN  /\ ocr.message = "success"
            /\ DetectedValue = int(NumeralBefore(TextLines[j], q))

\* C18 for the texts in which every suffixed numeral from the label on is in
\* range.
C18_AnchoredFirstWellFormed ==
    (/\ Extracted
     /\ AnchoredLines # {}
     /\ \A j \in 1 .. Len(TextLines) :
           (\E i \in AnchorLines : i <= j)
              => SuffixEnds(TextLines[j]) = ValidSuffixEnds(TextLines[j]))
        => C18_AnchoredFirst

C18_WellFormedReached ==
    /\ Extracted
    /\ TextLines = <<Total \o <<" ", "1", "0", ",", "0", "0", "0", "won">>,
                     Anchor, <<"9", ",", "0", "0", "0", "won">>>>
    /\ DetectedValue = 9000

\* C19: the extractor never fails on its text: it returns an amount or no
\* amount, the latter when the text is absent; a numeral that is not all
\* digits once the separators are removed is skipped.
C19_NeverRaises ==
    Extracted =>
        /\ ocr.message \in {"success", "not_detected"}
        /\ response.text = <<>> => ocr.message = "not_detected"

\* The messages shown for the texts in which no amount is found.
NotDetectedMessages ==
    { ocr_outcome(r).message :
        r \in { x \in Responses :
                  x.kind = "ok" /\ extract_amount_from_image(x).kind = "none" } }

\* C20: when the OCR service reports an error, by an error message in its
\* response or by an exception, the page shows something else than what it
\* shows when OCR worked and no amount was found.
C20_ErrorDistinct ==
    (ocr # NoOcr /\ response.kind \in {"error", "raise"})
        => ocr.message \notin NotDetectedMessages

\* The part of C20 about exceptions.
C20_ExceptionDistinct ==
    (ocr # NoOcr /\ response.kind = "raise")
        => ocr.message \notin NotDetectedMessages

----------------------------------------------------------------------------
(* The expense form *)

\* The integer the extractor found in the receipt, 0 when it found none or
\* no receipt was uploaded.
ExtractedInteger ==
    IF response.kind = "ok" /\ find_amount(response.text).kind = "amount"
    THEN find_amount(response.text).val
    ELSE 0

\* The string the extractor returned for the receipt, empty when it returned
\* none.
RawOutput ==
    IF response.kind = "ok" THEN extract_amount_from_image(response).detected
    ELSE <<>>

\* C21: the amount field's default is the integer the extractor found (0
\* when it found none); a transaction is appended only by a submission of
\* the form, its Amount is what the amount field held at the submission and
\* its OCR Amount is the string the extractor returned, whatever the field
\* held.
C21_Prefill ==
    [][ /\ figures'.page = "expense_input"
            => figures'.default_amount = ExtractedInteger
        /\ txSheet' # txSheet
            => /\ figures.page = "expense_input"
               /\ figures'.message = "saved"
               /\ Len(txSheet') = Len(txSheet) + 1
               /\ SubSeq(txSheet', 1, Len(txSheet)) = txSheet
               /\ txSheet'[Len(txSheet')].Amount = figures.amount
               /\ txSheet'[Len(txSheet')].OCRAmount = RawOutput
               /\ txSheet'[Len(txSheet')].OCRAmount = ocr.detected
      ]_vars

\* A transaction whose amount the user typed over a detected amount of
\* 10,000, and one stored with the detected amount.
C21_Witness ==
    /\ \E i \in 1 .. Len(txSheet) :
          /\ txSheet[i].OCRAmount = <<"1", "0", ",", "0", "0", "0">>
          /\ txSheet[i].Amount = 7000
    /\ \E i \in 1 .. Len(txSheet) :
          /\ txSheet[i].OCRAmount = <<"1", "0", ",", "0", "0", "0">>
          /\ txSheet[i].Amount = 10000

\* The default of an amount of eight digits, with its two separators.
C21_LargestReached ==
    /\ figures.page = "expense_input"
    /\ ocr.detected = <<"9", "9", ",", "9", "9", "9", ",", "9", "9", "9">>
    /\ figures.default_amount = 99999999

----------------------------------------------------------------------------
(* Dirty cells *)

\* The value a cell of a numeric column stands for: its number, 0 for
\* anything else.
Meant(cell) == IF cell.k = "num" THEN cell.v ELSE 0

\* The rows of the two sheets every numeric cell of which holds a number,
\* as a load of them alone gives them.
CleanBudgets ==
    load_budgets(SelectSeq(budgetSheet, LAMBDA r :
        r.MonthlyBudget.k = "num" /\ r.Year.k = "num" /\ r.Month.k = "num")).rows

CleanTransactions ==
    load_transactions_records(SelectSeq(txSheet, LAMBDA r : r.Amount.k = "num")).rows

\* The sums of the dashboard and of the Report page.
SumsOf(d, r) ==
    <<d.monthly_budget, d.prev_months_budget, d.this_month_spent,
      d.prev_months_spent, d.total_spent_this_year, d.carryover,
      d.available_budget, d.remaining, d.ytd_budget, d.ytd_spent,
      r.total_spent, r.cumulative_budget, r.remaining>>

\* What C22 asks of the state after a load or a render of the sums.
DirtyDegrades ==
    /\ figures.page = "load_transactions" =>
          /\ figures.result.kind = "ok"
          /\ \A i \in 1 .. Len(txSheet) :
                figures.result.rows[i].Amount = Meant(txSheet[i].Amount)
    /\ figures.page = "load_budgets" =>
          /\ figures.result.kind = "ok"
          /\ \A i \in 1 .. Len(budgetSheet) :
                /\ figures.result.rows[i].MonthlyBudget
                      = Meant(budgetSheet[i].MonthlyBudget)
                /\ figures.result.rows[i].Year = Meant(budgetSheet[i].Year)
                /\ figures.result.rows[i].Month = Meant(budgetSheet[i].Month)
                /\ (budgetSheet[i].Year.k # "num" \/ budgetSheet[i].Month.k # "num")
                      => \A y \in {2024, 2025}, m \in 1 .. 12 :
                            LET hit == get_budget_for_month(figures.result.rows, y, m)
                            IN  \A j \in 1 .. Len(hit) : hit[j].rid # i
    /\ figures.page = "sums" =>
          /\ figures.kind = "ok"
          /\ SumsOf(figures.dashboard, figures.report)
                = SumsOf(Dashboard(CleanTransactions, CleanBudgets, today),
                         ReportPage(CleanTransactions, CleanBudgets, today))

\* C22: loading never raises on a field that holds no number; a budget row
\* whose Monthly Budget is no number counts 0, one whose Month or Year is no
\* number is loaded with 0 there and matches no query of a year and a month
\* 1..12, a transaction whose Amount is no number counts 0 in every sum, and
\* the rows in order count as if the others were absent.
C22_DirtyDegrades == DirtyDegrades

\* No cell of the two sheets reads as an infinite float.
NoInfinite ==
    /\ \A i \in 1 .. Len(txSheet) : txSheet[i].Amount.k # "inf"
    /\ \A i \in 1 .. Len(budgetSheet) :
          /\ budgetSheet[i].MonthlyBudget.k # "inf"
          /\ budgetSheet[i].Year.k # "inf"
          /\ budgetSheet[i].Month.k # "inf"

\* C22 for the sheets whose dirty cells are texts and empty cells.
C22_TextAndBlankDegrade == NoInfinite => DirtyDegrades

\* A dirty row beside a row in order, and the sums are those of the row in
\* order.
C22_TextAndBlankReached ==
    /\ NoInfinite
    /\ figures.page = "sums"
    /\ figures.dashboard.monthly_budget = 10000
    /\ figures.dashboard.this_month_spent = 3000
    /\ Len(budgetSheet) = 2
    /\ Len(txSheet) = 2

----------------------------------------------------------------------------
(* The migration of the month = 0 entries *)

\* Session s takes a turn of the migration loop.
MigrateStep(s) ==
    /\ pc[s] = "migrate"
    /\ month0_entries[s] # <<>>
    /\ month0_entries'[s] = Tail(month0_entries[s])

\* The entry of identity r keeps the month it has, if it stays in the sheet.
MonthKept(r) ==
    \A i \in 1 .. Len(budgetSheet), j \in 1 .. Len(budgetSheet') :
        (budgetSheet[i].rid = r /\ budgetSheet'[j].rid = r)
            => budgetSheet'[j].Month = budgetSheet[i].Month

MidEdit(s) == pc[s] \in {"updateC", "updateE", "updateH"}

\* The Timestamp of the record that sheet_row = selected_tx + 2 addresses
\* now; 0 when the row is past the last data row.
edit_target(s) ==
    IF selected_tx[s] + 1 <= Len(txSheet)
    THEN txSheet[selected_tx[s] + 1].Timestamp
    ELSE 0

\* C25: the four cell writes of one transaction edit all target the same
\* record in every interleaving: between two of the writes of a session's
\* edit, the row number the edit writes to never comes to address another
\* record (or none), so no edit's values are split across two transactions.
C25_SingleTransaction ==
    [][\A s \in Sessions :
          (MidEdit(s) /\ MidEdit(s)') => edit_target(s)' = edit_target(s)]_vars

\* One edit's values on two rows: the first row holds the Category of the
\* edit under its own Description, the second (another transaction, or an
\* empty grid row the write turned into a data row) the Description of the
\* edit under a Category of its own.
C25_SplitEdit ==
    /\ Len(txSheet) = 2
    /\ \E e \in EditInputs :
          /\ txSheet[1].Category = e.Category
          /\ txSheet[1].Description # e.Description
          /\ txSheet[2].Description = e.Description
          /\ txSheet[2].Category # e.Category
          /\ txSheet[1].Timestamp # txSheet[2].Timestamp

(* The migration beside another session's writes *)

\* C26: the migration changes only entries whose month was 0, in every
\* interleaving with another session's budget add, edit or delete: a turn
\* of the loop overwrites the month of no entry whose month is in 1..12,
\* and the entry the turn was read for, if it is still in the sheet, has a
\* month other than 0 after the turn.
C26_OnlyMonth0 ==
    [][\A s \in Sessions :
          MigrateStep(s) =>
             /\ \A i \in 1 .. Len(budgetSheet) :
                   (budgetSheet[i].Month \in 1 .. 12 /\ budgetSheet[i].rid # 0)
                      => MonthKept(budgetSheet[i].rid)
             /\ \A j \in 1 .. Len(budgetSheet') :
                   budgetSheet'[j].rid = Head(month0_entries[s]).row.rid
                      => budgetSheet'[j].Month # 0
      ]_vars

\* The first half alone: no entry of month 1..12 is overwritten.
C26_MonthOverwritten ==
    [][\A s \in Sessions :
          MigrateStep(s) =>
             \A i \in 1 .. Len(budgetSheet) :
                (budgetSheet[i].Month \in 1 .. 12 /\ budgetSheet[i].rid # 0)
                   => MonthKept(budgetSheet[i].rid)
      ]_vars

\* The second half alone: the entry read as month = 0 is reassigned.
C26_Month0Left ==
    [][\A s \in Sessions :
          MigrateStep(s) =>
             \A j \in 1 .. Len(budgetSheet') :
                budgetSheet'[j].rid = Head(month0_entries[s]).row.rid
                   => budgetSheet'[j].Month # 0
      ]_vars

(* The number of month = 0 entries *)

\* The month = 0 entries the Budget Settings page finds in the sheet.
month0_count(sheet) == Len(month0_of(load_budgets_fresh(sheet), 0))

\* C27: no operation of the program creates a month = 0 budget entry: over
\* any sequence and interleaving of operations the number of stored
\* month = 0 entries never increases.
C27_Month0NeverIncreases ==
    [][month0_count(budgetSheet') <= month0_count(budgetSheet)]_vars

\* The part about the forms and the migration themselves: a row appended by
\* the add form has a month of 1..12, and the row a save or a turn of the
\* migration writes to has a month of 1..12 afterwards.
C27_WritesConcreteMonth ==
    [][ /\ last'.op = "budget_add" /\ budgetSheet' # budgetSheet
              => budgetSheet'[Len(budgetSheet')].Month \in 1 .. 12
        /\ \A s \in Sessions :
              BudgetEditStep(s)
                 => budgetSheet'[edit_idx[s] + 1].Month \in 1 .. 12
        /\ \A s \in Sessions :
              MigrateStep(s)
                 => budgetSheet'[Head(month0_entries[s]).idx + 1].Month
                       \in 1 .. 12
      ]_vars

(* The submission of the expense form *)

\* A run of the script that follows a click on "save".
SubmitStep == \E up \in UploadOutcomes : SubmitForm(up)

\* C28: creation is validated. A submission with amount <= 0 or an empty
\* description appends nothing and leaves the store unchanged; a submission
\* that passes appends exactly one row with the amount and the description
\* of the form, also when the upload of the receipt fails, and then with an
\* empty receipt URL; every stored amount is a positive integer.
C28_Validated ==
    [][ /\ \A i \in 1 .. Len(txSheet') :
              txSheet'[i].Amount \in Nat \ {0}
        /\ SubmitStep =>
              IF figures.amount <= 0 \/ figures.description = ""
              THEN /\ txSheet' = txSheet
                   /\ UNCHANGED storeVars
              ELSE /\ Len(txSheet') = Len(txSheet) + 1
                   /\ SubSeq(txSheet', 1, Len(txSheet)) = txSheet
                   /\ txSheet'[Len(txSheet')].Amount = figures.amount
                   /\ txSheet'[Len(txSheet')].Description = figures.description
                   /\ (response # NoResponse /\ SubmitForm("raise"))
                         => /\ txSheet'[Len(txSheet')].ReceiptURL = ""
                            /\ figures'.upload_warning
      ]_vars

\* A transaction was appended although the upload of its receipt failed.
C28_Witness ==
    /\ figures.page = "expense_input"
    /\ figures.message = "saved"
    /\ figures.upload_warning
    /\ response # NoResponse
    /\ txSheet # <<>>
    /\ txSheet[Len(txSheet)].ReceiptURL = ""
    /\ txSheet[Len(txSheet)].Amount > 0
    /\ txSheet[Len(txSheet)].Description # ""

\* A submission without a description was turned down after one was saved.
C28_RejectedReached ==
    /\ figures.page = "expense_input"
    /\ figures.message = "description_error"
    /\ Len(txSheet) = 1
    /\ clock = 1

(* The remaining budget of the report page and of the dashboard *)

\* The transactions dated in months 1..current_month of the current year.
dated_to_date(df, now) ==
    SelectSeq(df, LAMBDA r : r.Date.y = now.year /\ r.Date.m >= 1
                             /\ r.Date.m <= now.month)

\* C29: for the same snapshot and the same current date the remaining budget
\* of the report page equals the remaining of the dashboard, and both equal
\* the resolved budgets of months 1..current_month of the current year less
\* the amounts of the transactions dated in those months.
C29_RemainingAgrees ==
    figures.page = "report" =>
        LET df == load_transactions(txSheet)
            budgets == load_budgets_fresh(budgetSheet)
        IN  /\ figures.remaining = Dashboard(df, budgets, today).remaining
            /\ figures.remaining =
                  budget_of_months(budgets, today.year, 1, today.month)
                  - SumAmount(dated_to_date(df, today))

\* The dashboard's remaining alone is that difference.
C29_DashboardRemaining ==
    figures.page = "dashboard" =>
        figures.remaining =
            budget_of_months(load_budgets_fresh(budgetSheet), today.year, 1,
                             today.month)
            - SumAmount(dated_to_date(load_transactions(txSheet), today))

\* The two pages agree when every transaction of the snapshot is dated in
\* months 1..current_month of the current year.
C29_AgreesWithinPeriod ==
    (figures.page = "report"
     /\ dated_to_date(load_transactions(txSheet), today) = load_transactions(txSheet))
        => figures.remaining
              = Dashboard(load_transactions(txSheet),
                          load_budgets_fresh(budgetSheet), today).remaining

\* A report page over a snapshot with a transaction of the period and a
\* budget, all transactions within the period.
C29_WithinPeriodReached ==
    /\ figures.page = "report"
    /\ txSheet # <<>> /\ budgetSheet # <<>>
    /\ figures.cumulative_budget > 0
    /\ dated_to_date(load_transactions(txSheet), today) = load_transactions(txSheet)

============================================================================
